---- MODULE Spec2Model ----
(***************************************************************************)
(* Model of the LLM Caller gateway core (modules/llm_caller/src):          *)
(*   - orchestrator.ts: routing selection, adapter selection, the retry    *)
(*     loop of dispatchChat, dispatchEmbed and dispatchChatStream;         *)
(*   - providerErrors.ts: the error taxonomy and isRetryable;              *)
(*   - adapters/openaiAdapter.ts: the streaming normalizer                 *)
(*     mapChatCompletionsStream;                                           *)
(*   - adapters/*.ts: the operations of the OpenAI, Anthropic and          *)
(*     LM Studio adapters over the HTTP client;                            *)
(*   - transport.ts: the onRequest hook and the route handlers.            *)
(***************************************************************************)
EXTENDS Integers, Sequences, FiniteSets, TLC

VARIABLES
    providers,          \* config.providers, as Object.entries() enumerates it
    adapters,           \* the adapter list handed to createOrchestrator
    maxAttempts,        \* resolveMaxAttempts(config)
    pc,                 \* position of the dispatch: idle / awaitAdapter / streaming / returned / threw
    request,            \* the request being dispatched
    routing,            \* the RoutingSelection of the dispatch
    adapterRequest,     \* the normalized request handed to the adapter
    attempt,            \* executeWithRetry: let attempt
    lastProviderError,  \* executeWithRetry: let lastProviderError
    calls,              \* observed: number of adapter method invocations of this dispatch
    calledAdapter,      \* observed: name of the adapter that was invoked
    thrown,             \* observed: the errors the adapter threw, in order
    response,           \* the value the dispatch returned
    raised,             \* the error the dispatch threw
    produced,           \* observed: events the adapter's stream yielded
    delivered,          \* events the consumer of dispatchChatStream received
    blocks,             \* normalizer: the chunks of the source stream
    pos,                \* normalizer: number of chunks consumed
    npc,                \* normalizer: running / done / failed
    emitted,            \* normalizer: events yielded so far
    accumulatedContent, \* normalizer: let accumulatedContent
    role,               \* normalizer: let role
    traceId,            \* normalizer: let traceId
    usageRaw,           \* normalizer: let usageRaw
    nerror,             \* normalizer: the error that ended the stream
    adapterKind,        \* adapter: the class createAdapter instantiated
    hasApiKey,          \* adapter: secretsProvider.getSecret returns a key
    clientStreams,      \* adapter: deps.httpClient.postStream is defined
    aop,                \* adapter: the operation invoked
    apc,                \* adapter: idle / awaitHttp / iterating / returned / threw
    secretLookups,      \* observed: calls of secretsProvider.getSecret
    httpRequests,       \* observed: requests issued through deps.httpClient
    astatus,            \* adapter: the HTTP status received (0 before any)
    aread,              \* adapter: chunks of the streaming response consumed
    aerror,             \* adapter: the error that escaped the operation
    clients,            \* transport: config.clients, the client registry
    limiter,            \* transport: config.rateLimit
    buckets,            \* transport: rate limiter, the Map of buckets
    now,                \* transport: Date.now()
    handlers,           \* transport: the concurrent handlers of rate limited requests
    treq,               \* transport: the HTTP request being handled
    tpc,                \* transport: idle / awaitOrch / streaming / done
    tstatus,            \* transport: the HTTP status written (0 before any)
    tcode,              \* transport: the error field of the body sent
    treply,             \* transport: message, retry hint, trace id and Retry-After sent
    orchCalls,          \* observed: the orchestrator methods the handler invoked
    tseen,              \* transport: events read from the orchestrator's stream
    frames,             \* transport: the SSE frames written to reply.raw
    ended,              \* transport: reply.raw.end() was called
    tfailure,           \* observed: the error the orchestrator raised
    tresult,            \* observed: the retry hint of the response the orchestrator returned
    normalizer,         \* usage: the normalizer applied to the usage of a response
    rawUsage,           \* usage: body.usage as the provider sent it
    normalizedUsage,    \* usage: the normalized usage of the payload
    upc,                \* usage: idle / done
    dispatches,         \* orchestrator: the locals of the dispatches running concurrently
    retryAttempts,      \* configuration: process.env.LLM_CALLER_RETRY_ATTEMPTS
    retry,              \* configuration: config.retry?.maxAttempts
    components,         \* health: the components buildHealthComponents collected
    probed,             \* observed: what each checkProviderHealth call did
    health              \* health: the body the /health handler returned

orchVars == <<pc, request, routing, adapterRequest, attempt, lastProviderError,
              calls, calledAdapter, thrown, response, raised, produced, delivered>>
confVars == <<providers, adapters, maxAttempts, retryAttempts, retry>>
normVars == <<blocks, pos, npc, emitted, accumulatedContent, role, traceId, usageRaw, nerror>>
adptVars == <<adapterKind, hasApiKey, clientStreams, aop, apc, secretLookups,
              httpRequests, astatus, aread, aerror>>
transVars == <<clients, limiter, buckets, now, handlers, treq, tpc, tstatus, tcode,
               treply, orchCalls, tseen, frames, ended, tfailure, tresult>>
usageVars == <<normalizer, rawUsage, normalizedUsage, upc>>
concVars == <<dispatches>>
healthVars == <<components, probed, health>>
vars == <<confVars, orchVars, normVars, adptVars, transVars, usageVars, concVars,
          healthVars>>

(***************************************************************************)
(* Values                                                                  *)
(***************************************************************************)
None == "none"

Capabilities == {"chat", "chatStream", "embed"}

\* ProviderErrorClassification
Classifications == {"TEMPORARY", "PERMANENT", "AUTH", "CONFIG", "RATE_LIMIT"}

\* isRetryable
isRetryableAll(classification) == classification \in Classifications

isRetryable(classification) ==
    classification = "TEMPORARY" \/ classification = "RATE_LIMIT"

\* Provider keys of the configurations under analysis, in declaration order.
ProviderKeys == <<"alpha", "beta">>

UnknownKey == "does-not-exist"

\* Model names: the bare default of a provider, a capability default of a
\* provider, or the model a caller pinned.
NoModel == [src |-> None, key |-> None, cap |-> None]

DefaultModelOf(key) == [src |-> "defaultModel", key |-> key, cap |-> None]

CapModelOf(key, cap) == [src |-> "defaults", key |-> key, cap |-> cap]

CallerModel == [src |-> "caller", key |-> None, cap |-> None]

\* a ?? b
Coalesce(a, b) == IF a # NoModel THEN a ELSE b

(***************************************************************************)
(* Routing selection (orchestrator.ts, resolveRoutingSelection)            *)
(***************************************************************************)
\* A request: the operation it asks for, request.provider, request.model.
Requests ==
    [op : Capabilities,
     provider : {None, UnknownKey} \cup {ProviderKeys[i] : i \in 1..Len(ProviderKeys)},
     model : {NoModel, CallerModel}]

NoRequest == [op |-> None, provider |-> None, model |-> NoModel]

\* providers[key]: index of the entry with that key, 0 when there is none.
RECURSIVE IndexOfKey(_, _, _)
IndexOfKey(entries, key, index) ==
    IF index > Len(entries) THEN 0
    ELSE IF entries[index].key = key THEN index
    ELSE IndexOfKey(entries, key, index + 1)

HasProvider(entries, key) == IndexOfKey(entries, key, 1) # 0

ProviderConfigOf(entries, key) == entries[IndexOfKey(entries, key, 1)]

\* config.scores?.[capability] ?? 0
baseScoreOf(config, capability) ==
    IF config.scores[capability] = <<>> THEN 0 ELSE config.scores[capability][1]

\* Boolean(config.defaults?.[capability])
hasDefaultOf(config, capability) == config.defaults[capability] # NoModel

\* the flat bonus of a capability-specific default model
DefaultBonus == 50

scoreOfDefaultDominates(config, capability) ==
    baseScoreOf(config, capability)
        + (IF hasDefaultOf(config, capability) THEN 2 * DefaultBonus ELSE 0)

\* const score = baseScore + (hasDefault ? 50 : 0)
scoreOf(config, capability) ==
    baseScoreOf(config, capability)
        + (IF hasDefaultOf(config, capability) THEN DefaultBonus ELSE 0)

\* const strategy = hasDefault ? 'capability-default' : 'fallback'
strategyOf(config, capability) ==
    IF hasDefaultOf(config, capability) THEN "capability-default" ELSE "fallback"

NoBest == [key |-> None, index |-> 0, score |-> 0, model |-> NoModel, strategy |-> None]

replacesBestLastWins(best, score, index) ==
    \/ best.index = 0
    \/ score >= best.score

\* if (!best || score > best.score || (score === best.score && index < best.index))
replacesBest(best, score, index) ==
    \/ best.index = 0
    \/ score > best.score
    \/ (score = best.score /\ index < best.index)

\* entries.forEach(([key, config], index) => { ... })
RECURSIVE forEachEntry(_, _, _, _)
forEachEntry(entries, capability, index, best) ==
    IF index > Len(entries) THEN best
    ELSE LET config == entries[index] IN
         IF capability \notin config.capabilities
         THEN forEachEntry(entries, capability, index + 1, best)
         ELSE LET score == scoreOf(config, capability)
                  model == Coalesce(config.defaults[capability], config.defaultModel)
                  candidate == [key |-> config.key, index |-> index, score |-> score,
                                model |-> model,
                                strategy |-> strategyOf(config, capability)]
              IN IF replacesBest(best, score, index)
                 THEN forEachEntry(entries, capability, index + 1, candidate)
                 ELSE forEachEntry(entries, capability, index + 1, best)

Selection(providerKey, model, strategy) ==
    [ok |-> TRUE, error |-> None, providerKey |-> providerKey,
     model |-> model, strategy |-> strategy]

SelectionError(message) ==
    [ok |-> FALSE, error |-> message, providerKey |-> None,
     model |-> NoModel, strategy |-> None]

NoRouting == SelectionError(None)

overrideSelectionScored(capability, req, entries) ==
    IF ~HasProvider(entries, req.provider)
    THEN SelectionError("Unknown provider")
    ELSE LET best == forEachEntry(entries, capability, 1, NoBest) IN
         IF best.index # 0
         THEN Selection(best.key, Coalesce(req.model, best.model), "caller-override")
         ELSE Selection(req.provider, Coalesce(req.model, entries[1].defaultModel),
                        "caller-override")

\* if (request.provider) { ... strategy: 'caller-override' }
overrideSelection(capability, req, entries) ==
    IF ~HasProvider(entries, req.provider)
    THEN SelectionError("Unknown provider")
    ELSE LET providerConfig == ProviderConfigOf(entries, req.provider) IN
         Selection(req.provider,
                   Coalesce(req.model,
                            Coalesce(providerConfig.defaults[capability],
                                     providerConfig.defaultModel)),
                   "caller-override")

\* const [fallbackKey, fallbackConfig] = entries[0]
lastResortSelection(entries) ==
    Selection(entries[1].key, entries[1].defaultModel, "fallback")

\* the selection that turns to the first entry once a dispatch has failed
resolveRoutingSelectionAfterFailure(capability, req, entries) ==
    IF req.provider # None
    THEN overrideSelection(capability, req, entries)
    ELSE IF Len(entries) = 0
    THEN SelectionError("No providers configured")
    ELSE LET best == forEachEntry(entries, capability, 1, NoBest) IN
         IF best.index # 0 /\ \A i \in DOMAIN dispatches : dispatches[i].pc # "threw"
         THEN Selection(best.key, best.model, best.strategy)
         ELSE lastResortSelection(entries)

resolveRoutingSelection(capability, req, entries) ==
    IF req.provider # None
    THEN overrideSelection(capability, req, entries)
    ELSE IF Len(entries) = 0
    THEN SelectionError("No providers configured")
    ELSE LET best == forEachEntry(entries, capability, 1, NoBest) IN
         IF best.index # 0
         THEN Selection(best.key, best.model, best.strategy)
         ELSE lastResortSelection(entries)

(***************************************************************************)
(* Adapter selection (orchestrator.ts, selectAdapter)                      *)
(***************************************************************************)
\* adapters.find((entry) => entry.name === providerKey): index or 0
RECURSIVE findAdapter(_, _, _)
findAdapter(list, providerKey, index) ==
    IF index > Len(list) THEN 0
    ELSE IF list[index].name = providerKey THEN index
    ELSE findAdapter(list, providerKey, index + 1)

NoAdapter == [name |-> None, supports |-> {}, hasChatStream |-> FALSE, hasEmbed |-> FALSE]

AdapterOk(adapter) == [ok |-> TRUE, error |-> None, adapter |-> adapter]

AdapterError(message) == [ok |-> FALSE, error |-> message, adapter |-> NoAdapter]

\* validateCapability: providerConfig.capabilities.includes(capability)
validateCapability(providerConfig, capability) ==
    capability \in providerConfig.capabilities

selectAdapter(providerKey, providerConfig, list, capability) ==
    LET index == findAdapter(list, providerKey, 1) IN
    IF index = 0 THEN AdapterError("Adapter not registered")
    ELSE IF capability \notin list[index].supports
    THEN AdapterError("Adapter does not support capability")
    ELSE IF ~validateCapability(providerConfig, capability)
    THEN AdapterError("Provider does not declare capability")
    ELSE AdapterOk(list[index])

\* normalizeChatRequest / normalizeEmbedRequest:
\* model = modelOverride ?? request.model ?? providerConfig.defaultModel
normalizeRequest(req, providerKey, providerConfig, modelOverride) ==
    [op |-> req.op, provider |-> providerKey,
     model |-> Coalesce(modelOverride, Coalesce(req.model, providerConfig.defaultModel))]

(***************************************************************************)
(* Errors (providerErrors.ts)                                              *)
(***************************************************************************)
NoError == [kind |-> None, classification |-> None, origin |-> None, id |-> 0, cause |-> 0]

\* new Error(message), thrown by the orchestrator itself
LocalError(message) ==
    [kind |-> "Error", classification |-> None, origin |-> message, id |-> 0, cause |-> 0]

\* the error thrown by the id-th adapter call: a ProviderError with a
\* classification, or an error of any other type (classification None)
AdapterThrows(classification, id) ==
    [kind |-> IF classification = None THEN "Error" ELSE "ProviderError",
     classification |-> classification, origin |-> "adapter", id |-> id, cause |-> 0]

\* isProviderError: error instanceof ProviderError
isProviderError(error) == error.kind = "ProviderError"

\* the exhaustion error built from the last failure, keeping its other
\* properties
exhaustedErrorKeepingHint(last) ==
    IF last.kind = "none"
    THEN [kind |-> "ProviderError", classification |-> "TEMPORARY",
          origin |-> "failed after attempts", id |-> 0, cause |-> 0]
    ELSE [last EXCEPT !.origin = "failed after attempts", !.id = 0, !.cause = last.id]

\* new ProviderError(message, lastProviderError?.classification ?? 'TEMPORARY',
\*                   { cause: lastProviderError })
exhaustedError(last) ==
    [kind |-> "ProviderError",
     classification |-> IF last = NoError THEN "TEMPORARY" ELSE last.classification,
     origin |-> "failed after attempts", id |-> 0, cause |-> last.id]

(***************************************************************************)
(* The retry loop (orchestrator.ts, executeWithRetry)                      *)
(***************************************************************************)
\* What the catch block does with an error thrown by the attempt-th call:
\* "continue" (loop again), "break" (attempts exhausted) or "throw".
catchDecisionOffByOne(error, n, max) ==
    IF isProviderError(error)
    THEN IF isRetryable(error.classification)
         THEN IF n <= max THEN "continue" ELSE "break"
         ELSE "throw"
    ELSE "throw"

\* the catch block that retries an error of any type while attempts remain
catchDecisionRetriesAny(error, n, max) ==
    IF isProviderError(error) /\ ~isRetryable(error.classification) THEN "throw"
    ELSE IF n < max THEN "continue" ELSE "break"

catchDecision(error, n, max) ==
    IF isProviderError(error)
    THEN IF isRetryable(error.classification)
         THEN IF n < max THEN "continue" ELSE "break"
         ELSE "throw"
    ELSE "throw"

\* lastProviderError after the catch block
lastErrorAfter(error, last) ==
    IF isProviderError(error) /\ isRetryable(error.classification) THEN error ELSE last

\* a key that an object does not have
Absent == "absent"

\* a JSON field (of body.usage, of the configuration) that is absent
Missing == [type |-> "undefined", halves |-> 0]

\* a field that holds a finite number, given in halves
JsonNumber(halves) == [type |-> "number", halves |-> halves]

\* a field that holds a string that is the decimal numeral of a number
Numeral(halves) == [type |-> "numeral", halves |-> halves]

\* a field that holds a string that starts with a numeral, such as "12abc"
Prefixed(halves) == [type |-> "prefixed", halves |-> halves]

\* a field that holds a string without a number in it, such as "abc"
JsonText == [type |-> "text", halves |-> 0]

\* a field that holds NaN, and one that holds Infinity
NotANumber == [type |-> "NaN", halves |-> 0]

Infinite == [type |-> "Infinity", halves |-> 0]

AbsentModel == [src |-> "absent", key |-> None, cap |-> None]

\* the model an adapter reports in providerInfo (the upstream body's model)
ReportedModel == [src |-> "adapter", key |-> None, cap |-> None]

NoMeta == [capability |-> None, strategy |-> None]

\* routing metadata an adapter put into its own payload
AdapterMeta == [capability |-> "chatStream", strategy |-> "adapter-supplied"]

\* a payload that is not an object (undefined, a string)
NoPayload == [isObject |-> FALSE, hasInfo |-> FALSE, name |-> Absent,
              model |-> AbsentModel, routing |-> NoMeta]

\* an object payload without providerInfo
PlainPayload == [isObject |-> TRUE, hasInfo |-> FALSE, name |-> Absent,
                 model |-> AbsentModel, routing |-> NoMeta]

\* an object payload with providerInfo { name, model, routing }; None and
\* NoModel are keys holding undefined, NoMeta is no routing key
InfoPayload(name, model, meta) ==
    [isObject |-> TRUE, hasInfo |-> TRUE, name |-> name, model |-> model,
     routing |-> meta]

\* the payloads an adapter returns: StubAdapter's { message }, a providerInfo
\* of its own, and normalizeOpenAIResponse's { name, model: body.model } for
\* an upstream body with and without a model
AdapterPayloads ==
    {PlainPayload,
     InfoPayload("upstream", ReportedModel, AdapterMeta),
     InfoPayload("upstream", ReportedModel, NoMeta),
     InfoPayload("upstream", NoModel, NoMeta),
     NoPayload}

\* attachRoutingMetadata: { ...payload, providerInfo: { name: existing.name ??
\* context.provider, model: existing.model ?? context.model, ...existing,
\* routing } }; the spread re-applies every key existing has
attachRoutingMetadata(payload, context) ==
    IF ~payload.isObject THEN payload
    ELSE LET existing == payload
             name0 == IF existing.name \in {Absent, None}
                      THEN context.provider ELSE existing.name
             model0 == IF existing.model \in {AbsentModel, NoModel}
                       THEN context.model ELSE existing.model
         IN [isObject |-> TRUE, hasInfo |-> TRUE,
             name |-> IF existing.name # Absent THEN existing.name ELSE name0,
             model |-> IF existing.model # AbsentModel THEN existing.model ELSE model0,
             routing |-> [capability |-> context.capability,
                          strategy |-> context.strategy]]

\* the context a dispatch hands to attachRoutingMetadata
contextOf(selection, normalized, capability) ==
    [provider |-> selection.providerKey,
     model |-> Coalesce(normalized.model, selection.model),
     capability |-> capability, strategy |-> selection.strategy]

NoResponse == [attempts |-> 0, provider |-> None, model |-> NoModel,
               capability |-> None, strategy |-> None,
               reported |-> NoPayload, payload |-> NoPayload]

\* the response that always reports a single attempt
responseOfSingleAttempt(n, selection, normalized, capability, result) ==
    [attempts |-> 1, provider |-> selection.providerKey,
     model |-> Coalesce(normalized.model, selection.model),
     capability |-> capability, strategy |-> selection.strategy,
     reported |-> result,
     payload |-> attachRoutingMetadata(result,
                    contextOf(selection, normalized, capability))]

\* { ...result, payload: attachRoutingMetadata(...), attempts }; reported is
\* the payload as the adapter returned it
responseOf(n, selection, normalized, capability, result) ==
    [attempts |-> n, provider |-> selection.providerKey,
     model |-> Coalesce(normalized.model, selection.model),
     capability |-> capability, strategy |-> selection.strategy,
     reported |-> result,
     payload |-> attachRoutingMetadata(result,
                    contextOf(selection, normalized, capability))]

(***************************************************************************)
(* Dispatch (orchestrator.ts, createOrchestrator)                          *)
(***************************************************************************)
\* The synchronous prefix of a dispatch: routing selection, adapter selection
\* for the capability the code checks, the method the adapter must have.
\* The result is the error thrown, or NoError when the adapter gets called.
prefixError(selection, selected, methodMissing) ==
    IF ~selection.ok THEN LocalError(selection.error)
    ELSE IF ~selected.ok THEN LocalError(selected.error)
    ELSE IF methodMissing THEN LocalError("Adapter does not support method")
    ELSE NoError

\* The capability dispatchChatStream hands to selectAdapter.
streamCheckedCapability == "chat"

CheckedCapability(op) == IF op = "chatStream" THEN streamCheckedCapability ELSE op

MethodMissing(op, adapter) ==
    \/ op = "chatStream" /\ ~adapter.hasChatStream
    \/ op = "embed" /\ ~adapter.hasEmbed

\* dispatchChat / dispatchEmbed / dispatchChatStream up to the first adapter call
Dispatch(req) ==
    /\ pc = "idle" /\ npc = "idle"
    /\ LET selection == resolveRoutingSelection(req.op, req, providers)
           providerConfig == ProviderConfigOf(providers, selection.providerKey)
           selected == IF selection.ok
                       THEN selectAdapter(selection.providerKey, providerConfig,
                                          adapters, CheckedCapability(req.op))
                       ELSE AdapterError(None)
           error == prefixError(selection, selected,
                                selected.ok /\ MethodMissing(req.op, selected.adapter))
       IN /\ request' = req
          /\ routing' = selection
          /\ IF error # NoError
             THEN /\ pc' = "threw"
                  /\ raised' = error
                  /\ UNCHANGED <<adapterRequest, attempt, calls, calledAdapter>>
             ELSE IF req.op = "chat" /\ ~(0 < maxAttempts)
             THEN \* executeWithRetry: `while (attempt < maxAttempts)` is never
                  \* entered
                  /\ pc' = "threw"
                  /\ raised' = exhaustedError(NoError)
                  /\ adapterRequest' = normalizeRequest(req, selection.providerKey,
                                                        providerConfig, selection.model)
                  /\ UNCHANGED <<attempt, calls, calledAdapter>>
             ELSE /\ pc' = IF req.op = "chatStream" THEN "streaming" ELSE "awaitAdapter"
                  /\ adapterRequest' = normalizeRequest(req, selection.providerKey,
                                                        providerConfig, selection.model)
                  /\ attempt' = IF req.op = "chat" THEN 1 ELSE 0
                  /\ calls' = 1
                  /\ calledAdapter' = selected.adapter.name
                  /\ UNCHANGED raised
    /\ UNCHANGED <<lastProviderError, thrown, response, produced, delivered>>
    /\ UNCHANGED <<confVars, normVars, adptVars, transVars, usageVars, concVars, healthVars>>

DispatchChat == \E req \in Requests : req.op = "chat" /\ Dispatch(req)

DispatchEmbed == \E req \in Requests : req.op = "embed" /\ Dispatch(req)

DispatchChatStream == \E req \in Requests : req.op = "chatStream" /\ Dispatch(req)

\* adapter.chat resolves: executeWithRetry returns { result, attempts: attempt }
ChatSucceeds(result) ==
    /\ pc = "awaitAdapter" /\ request.op = "chat"
    /\ response' = responseOf(attempt, routing, adapterRequest, "chat", result)
    /\ pc' = "returned"
    /\ UNCHANGED <<request, routing, adapterRequest, attempt, lastProviderError,
                   calls, calledAdapter, thrown, raised, produced, delivered>>
    /\ UNCHANGED <<confVars, normVars, adptVars, transVars, usageVars, concVars, healthVars>>

\* adapter.chat rejects: the catch block of executeWithRetry
ChatRejects(error) ==
    /\ pc = "awaitAdapter" /\ request.op = "chat"
    /\ LET decision == catchDecision(error, attempt, maxAttempts)
           last == lastErrorAfter(error, lastProviderError)
       IN /\ thrown' = Append(thrown, error)
          /\ lastProviderError' = last
          /\ CASE decision = "continue" ->
                    /\ attempt' = attempt + 1
                    /\ calls' = calls + 1
                    /\ UNCHANGED <<pc, raised>>
               [] decision = "break" ->
                    /\ pc' = "threw"
                    /\ raised' = exhaustedError(last)
                    /\ UNCHANGED <<attempt, calls>>
               [] OTHER ->
                    /\ pc' = "threw"
                    /\ raised' = error
                    /\ UNCHANGED <<attempt, calls>>
    /\ UNCHANGED <<request, routing, adapterRequest, calledAdapter, response,
                   produced, delivered>>
    /\ UNCHANGED <<confVars, normVars, adptVars, transVars, usageVars, concVars, healthVars>>

\* adapter.chat rejects with an error of the given classification
ChatFails(classification) == ChatRejects(AdapterThrows(classification, calls))

\* adapter.embed resolves: { ...response, payload, attempts: 1 }
EmbedSucceeds(result) ==
    /\ pc = "awaitAdapter" /\ request.op = "embed"
    /\ response' = responseOf(1, routing, adapterRequest, "embed", result)
    /\ pc' = "returned"
    /\ UNCHANGED <<request, routing, adapterRequest, attempt, lastProviderError,
                   calls, calledAdapter, thrown, raised, produced, delivered>>
    /\ UNCHANGED <<confVars, normVars, adptVars, transVars, usageVars, concVars, healthVars>>

\* adapter.embed rejects: `await adapter.embed(...)` is not wrapped, the
\* rejection is the rejection of dispatchEmbed
EmbedFails(classification) ==
    /\ pc = "awaitAdapter" /\ request.op = "embed"
    /\ thrown' = Append(thrown, AdapterThrows(classification, calls))
    /\ raised' = AdapterThrows(classification, calls)
    /\ pc' = "threw"
    /\ UNCHANGED <<request, routing, adapterRequest, attempt, lastProviderError,
                   calls, calledAdapter, response, produced, delivered>>
    /\ UNCHANGED <<confVars, normVars, adptVars, transVars, usageVars, concVars, healthVars>>

(***************************************************************************)
(* Streaming dispatch (orchestrator.ts, attachRoutingToStream)             *)
(***************************************************************************)
DeltaEvent(content) ==
    [type |-> "delta", hasPayload |-> FALSE, content |-> content, payload |-> NoPayload]

\* a completion event whose payload carries providerInfo: { name, model }
CompletionEvent(content, meta) ==
    [type |-> "completion", hasPayload |-> TRUE, content |-> content,
     payload |-> InfoPayload("upstream", ReportedModel, meta)]

\* what an adapter's stream may yield
AdapterEvents ==
    {DeltaEvent("Hel"), DeltaEvent("lo"), CompletionEvent("Hello", AdapterMeta)}

\* longest event sequence an adapter's stream yields
MaxEvents == 2

\* attachRoutingToStream, the body of the for-await loop:
\* event.payload ? { ...event, payload: attachRoutingMetadata(...) } : event
attachRoutingToEvent(event, context) ==
    IF event.hasPayload
    THEN [event EXCEPT !.payload = attachRoutingMetadata(event.payload, context)]
    ELSE event

\* the adapter's stream yields an event; the generator re-yields it
StreamYields(event) ==
    /\ pc = "streaming"
    /\ Len(produced) < MaxEvents
    /\ produced' = Append(produced, event)
    /\ delivered' = Append(delivered, attachRoutingToEvent(event,
                       contextOf(routing, adapterRequest, "chatStream")))
    /\ UNCHANGED <<pc, request, routing, adapterRequest, attempt, lastProviderError,
                   calls, calledAdapter, thrown, response, raised>>
    /\ UNCHANGED <<confVars, normVars, adptVars, transVars, usageVars, concVars, healthVars>>

\* the adapter's stream is exhausted; the generator returns
StreamEnds ==
    /\ pc = "streaming"
    /\ pc' = "returned"
    /\ UNCHANGED <<request, routing, adapterRequest, attempt, lastProviderError,
                   calls, calledAdapter, thrown, response, raised, produced, delivered>>
    /\ UNCHANGED <<confVars, normVars, adptVars, transVars, usageVars, concVars, healthVars>>

StreamFailsRetried(classification) ==
    /\ pc = "streaming"
    /\ thrown' = Append(thrown, AdapterThrows(classification, calls))
    /\ IF isRetryable(classification) /\ calls < maxAttempts
       THEN /\ calls' = calls + 1
            /\ UNCHANGED <<pc, raised>>
       ELSE /\ raised' = AdapterThrows(classification, calls)
            /\ pc' = "threw"
            /\ UNCHANGED calls
    /\ UNCHANGED <<request, routing, adapterRequest, attempt, lastProviderError,
                   calledAdapter, response, produced, delivered>>
    /\ UNCHANGED <<confVars, normVars, adptVars, transVars, usageVars, concVars, healthVars>>

\* the adapter's stream throws; for-await rethrows out of the generator
StreamFails(classification) ==
    /\ pc = "streaming"
    /\ thrown' = Append(thrown, AdapterThrows(classification, calls))
    /\ raised' = AdapterThrows(classification, calls)
    /\ pc' = "threw"
    /\ UNCHANGED <<request, routing, adapterRequest, attempt, lastProviderError,
                   calls, calledAdapter, response, produced, delivered>>
    /\ UNCHANGED <<confVars, normVars, adptVars, transVars, usageVars, concVars, healthVars>>

(***************************************************************************)
(* Configurations under analysis                                           *)
(***************************************************************************)
\* largest retry.maxAttempts of the configurations under analysis
MaxAttemptsBound == 2

NoScores == [c \in Capabilities |-> <<>>]

ProviderEntry(key, capabilities, withDefault, scores) ==
    [key |-> key,
     defaultModel |-> DefaultModelOf(key),
     capabilities |-> capabilities,
     defaults |-> [c \in Capabilities |->
                     IF c \in withDefault THEN CapModelOf(key, c) ELSE NoModel],
     scores |-> scores]

\* capability sets a provider entry declares
DeclaredSets == {{}, {"chat"}, {"chatStream", "embed"}, Capabilities}

\* provider entries of the dispatch specification
DispatchEntries(key) ==
    {ProviderEntry(key, capabilities, withDefault, NoScores) :
        capabilities \in DeclaredSets, withDefault \in {{}, Capabilities}}

\* score maps of the routing specification: none, or a chat/chatStream score
\* v together with the embed score 105 - v
ScoreMaps ==
    {NoScores} \cup
    {[c \in Capabilities |-> IF c = "embed" THEN <<105 - v>> ELSE <<v>>] : v \in {10, 60, 95}}

\* provider entries of the routing specification
RoutingEntries(key) ==
    {ProviderEntry(key, capabilities, withDefault, scores) :
        capabilities \in DeclaredSets,
        withDefault \in {{}, {"chat", "chatStream"}, {"embed"}},
        scores \in ScoreMaps}

\* adapters as the repository builds them: BaseProviderAdapter advertises what
\* the configuration declares; OpenAI and LM Studio implement chatStream and
\* embed, Anthropic implements chat only.
BuiltAdapters(entry) ==
    {[name |-> entry.key, supports |-> entry.capabilities,
      hasChatStream |-> TRUE, hasEmbed |-> TRUE],
     [name |-> entry.key, supports |-> entry.capabilities,
      hasChatStream |-> FALSE, hasEmbed |-> FALSE]}

\* adapters as the orchestrator tests build them: every method implemented,
\* the advertised capabilities independent of the configuration
StubAdapters(entry) ==
    {[name |-> entry.key, supports |-> {},
      hasChatStream |-> TRUE, hasEmbed |-> TRUE],
     [name |-> entry.key, supports |-> Capabilities,
      hasChatStream |-> TRUE, hasEmbed |-> TRUE]}

AdaptersFor(entry) == BuiltAdapters(entry) \cup StubAdapters(entry)

\* the configurations <<e[1], ..., e[n]>>, e[i] an entry of entries[ProviderKeys[i]]
ConfigsOf(entries) ==
    UNION {{f \in [1..n -> UNION {entries[ProviderKeys[i]] : i \in 1..n}] :
               \A i \in 1..n : f[i] \in entries[ProviderKeys[i]]} :
           n \in 0..Len(ProviderKeys)}

KeySet == {ProviderKeys[i] : i \in 1..Len(ProviderKeys)}

DispatchConfigs == ConfigsOf([key \in KeySet |-> DispatchEntries(key)])

RoutingConfigs == ConfigsOf([key \in KeySet |-> RoutingEntries(key)])

\* createProviderAdapters with the OpenAI / LM Studio adapter for every entry
FullAdapters(entries) ==
    [i \in 1..Len(entries) |->
        [name |-> entries[i].key, supports |-> entries[i].capabilities,
         hasChatStream |-> TRUE, hasEmbed |-> TRUE]]

\* adapter lists: every configured provider has an adapter or none
AdapterListsOf(entries) ==
    LET perEntry(i) == {<<a>> : a \in AdaptersFor(entries[i])} \cup {<<>>}
        RECURSIVE concat(_)
        concat(i) == IF i > Len(entries) THEN {<<>>}
                     ELSE {h \o t : h \in perEntry(i), t \in concat(i + 1)}
    IN concat(1)

OrchIdle ==
    /\ pc = "idle"
    /\ request = NoRequest
    /\ routing = NoRouting
    /\ adapterRequest = NoRequest
    /\ attempt = 0
    /\ lastProviderError = NoError
    /\ calls = 0
    /\ calledAdapter = None
    /\ thrown = <<>>
    /\ response = NoResponse
    /\ raised = NoError
    /\ produced = <<>>
    /\ delivered = <<>>

NormIdle ==
    /\ blocks = <<>>
    /\ pos = 0
    /\ npc = "idle"
    /\ emitted = <<>>
    /\ accumulatedContent = <<>>
    /\ role = None
    /\ traceId = None
    /\ usageRaw = None
    /\ nerror = NoError

AdapterIdle ==
    /\ adapterKind = None
    /\ hasApiKey = FALSE
    /\ clientStreams = FALSE
    /\ aop = None
    /\ apc = "idle"
    /\ secretLookups = 0
    /\ httpRequests = 0
    /\ astatus = 0
    /\ aread = 0
    /\ aerror = NoError

\* no response is being normalized
UsageIdle ==
    /\ normalizer = None
    /\ rawUsage = None
    /\ normalizedUsage = None
    /\ upc = "idle"

\* no dispatch runs concurrently with the one under analysis
ConcurrentIdle == dispatches = <<>>

\* no health request is being answered
NoHealth == [status |-> None, components |-> <<>>]

HealthIdle ==
    /\ components = <<>>
    /\ probed = <<>>
    /\ health = NoHealth

\* the configuration was built by the caller of createOrchestrator with
\* retry.maxAttempts set to the attempt count (as the tests do), not loaded
\* from the environment
ConfiguredDirectly ==
    /\ retryAttempts = Missing
    /\ retry = JsonNumber(2 * maxAttempts)

\* no request and no error at the transport
NoHttpRequest ==
    [method |-> None, ip |-> None, token |-> None, valid |-> FALSE,
     requestId |-> None]

\* a retry hint that is undefined
NoHint == [type |-> "undefined", halves |-> 0]

NoFailure ==
    [kind |-> None, classification |-> None, retryAfterMs |-> NoHint,
     message |-> None, cause |-> None]

\* config.rateLimit: createServer builds a rate limiter only when it is set
NoRateLimit == [configured |-> FALSE, maxRequests |-> 0, intervalMs |-> 0]

\* a reply without message, retry hint, trace id or Retry-After header
NoReply == [message |-> None, retryAfterMs |-> NoHint, traceId |-> None, retryAfter |-> 0]

TransportIdle ==
    /\ clients = <<>>
    /\ limiter = NoRateLimit
    /\ buckets = <<>>
    /\ now = 0
    /\ handlers = <<>>
    /\ treq = NoHttpRequest
    /\ tpc = "idle"
    /\ tstatus = 0
    /\ tcode = None
    /\ treply = NoReply
    /\ orchCalls = <<>>
    /\ tseen = 0
    /\ frames = <<>>
    /\ ended = FALSE
    /\ tfailure = NoFailure
    /\ tresult = NoHint

Init ==
    /\ providers \in DispatchConfigs
    /\ adapters \in AdapterListsOf(providers)
    /\ maxAttempts \in 1..MaxAttemptsBound
    /\ ConfiguredDirectly
    /\ OrchIdle
    /\ NormIdle
    /\ AdapterIdle
    /\ TransportIdle
    /\ UsageIdle
    /\ ConcurrentIdle
    /\ HealthIdle

Next ==
    \/ DispatchChat
    \/ DispatchEmbed
    \/ DispatchChatStream
    \/ \E result \in AdapterPayloads : ChatSucceeds(result)
    \/ \E c \in Classifications \cup {None} : ChatFails(c)
    \/ \E result \in AdapterPayloads : EmbedSucceeds(result)
    \/ \E c \in Classifications \cup {None} : EmbedFails(c)
    \/ \E e \in AdapterEvents : StreamYields(e)
    \/ StreamEnds
    \/ \E c \in Classifications \cup {None} : StreamFails(c)

Spec == Init /\ [][Next]_vars

\* the same dispatches over configurations with scores and partial defaults
InitRouting ==
    /\ providers \in RoutingConfigs
    /\ adapters = FullAdapters(providers)
    /\ maxAttempts = MaxAttemptsBound
    /\ ConfiguredDirectly
    /\ OrchIdle
    /\ NormIdle
    /\ AdapterIdle
    /\ TransportIdle
    /\ UsageIdle
    /\ ConcurrentIdle
    /\ HealthIdle

SpecRouting == InitRouting /\ [][Next]_vars

(***************************************************************************)
(* Streaming normalizer (adapters/openaiAdapter.ts)                        *)
(***************************************************************************)
\* A chunk of the source is a sequence of lines; a line is a `data:` line or
\* not, and carries a payload: a blank, the sentinel, text that is not JSON,
\* the JSON value null, or a JSON object.
Sentinel == [kind |-> "text", text |-> "[DONE]"]

Blank == [kind |-> "text", text |-> ""]

NotJson == [kind |-> "text", text |-> "{bad"]

JsonNull == [kind |-> "text", text |-> "null"]

\* two or more payloads joined by a newline: not the sentinel, not JSON
Joined == [kind |-> "text", text |-> "joined"]

NoDelta == [present |-> FALSE, hasRole |-> FALSE, role |-> None,
            hasContent |-> FALSE, content |-> <<>>]

\* choice.delta with a role and/or a content string (content as fragments)
Delta(hasRole, deltaRole, hasContent, content) ==
    [present |-> TRUE, hasRole |-> hasRole, role |-> deltaRole,
     hasContent |-> hasContent, content |-> content]

Choice(delta, finish) == [delta |-> delta, finish_reason |-> finish]

JsonObject(id, usage, choices) ==
    [kind |-> "object", id |-> id, usage |-> usage, choices |-> choices]

DataLine(payload) == [isData |-> TRUE, payload |-> payload]

OtherLine == [isData |-> FALSE, payload |-> Blank]

\* the JSON objects of the streams under analysis
StreamObjects ==
    {JsonObject("id1", None, <<Choice(Delta(TRUE, "assistant", TRUE, <<"Hel">>), None)>>),
     JsonObject("id1", None, <<Choice(Delta(FALSE, None, TRUE, <<"lo">>), None)>>),
     JsonObject("id1", "u1", <<Choice(NoDelta, "stop")>>),
     JsonObject(None, None, <<Choice(Delta(FALSE, None, TRUE, <<"lo">>), "stop")>>),
     JsonObject("id2", None, <<Choice(Delta(FALSE, None, FALSE, <<>>), None)>>),
     JsonObject(None, None, <<Choice(Delta(FALSE, None, TRUE, <<"Hel">>), None),
                              Choice(Delta(TRUE, "", TRUE, <<>>), "stop")>>),
     JsonObject(None, None, <<Choice(NoDelta, "length")>>),
     JsonObject("id2", "u2", <<>>)}

\* the chunks of the streams under analysis
Chunks ==
    {<<DataLine(o)>> : o \in StreamObjects}
    \cup {<<DataLine(Sentinel)>>, <<DataLine(NotJson)>>, <<DataLine(JsonNull)>>,
          <<DataLine(Blank)>>, <<OtherLine>>,
          <<DataLine(Sentinel), DataLine(Blank)>>,
          <<DataLine(Sentinel), DataLine(Sentinel)>>,
          <<OtherLine, DataLine(JsonObject("id1", "u1", <<Choice(NoDelta, "stop")>>))>>}

\* longest source stream
MaxBlocks == 3

\* lines.filter((line) => line.startsWith('data:')).map(...)
RECURSIVE dataLinesOf(_)
dataLinesOf(lines) ==
    IF lines = <<>> THEN <<>>
    ELSE IF Head(lines).isData THEN <<Head(lines).payload>> \o dataLinesOf(Tail(lines))
    ELSE dataLinesOf(Tail(lines))

\* String.prototype.trim on the joined payloads: blank payloads at either end
\* leave only whitespace behind
RECURSIVE trimStartOf(_)
trimStartOf(payloads) ==
    IF payloads # <<>> /\ Head(payloads) = Blank THEN trimStartOf(Tail(payloads))
    ELSE payloads

RECURSIVE trimEndOf(_)
trimEndOf(payloads) ==
    IF payloads # <<>> /\ payloads[Len(payloads)] = Blank
    THEN trimEndOf(SubSeq(payloads, 1, Len(payloads) - 1))
    ELSE payloads

Undefined == [kind |-> "undefined"]

\* extractDataPayload: undefined without data lines, else dataLines.join('\n').trim()
extractDataPayload(chunk) ==
    LET dataLines == dataLinesOf(chunk)
        trimmed == trimEndOf(trimStartOf(dataLines))
    IN IF Len(dataLines) = 0 THEN Undefined
       ELSE IF Len(trimmed) = 0 THEN Blank
       ELSE IF Len(trimmed) = 1 THEN trimmed[1]
       ELSE Joined

\* JSON.parse(data) throws
parseFails(data) == data.kind = "text" /\ data # JsonNull

NormDelta(hasRole, deltaRole, hasContent, content, trace) ==
    [type |-> "delta", hasRole |-> hasRole, role |-> deltaRole,
     hasContent |-> hasContent, content |-> content, traceId |-> trace, usage |-> None]

NormCompletion(messageRole, content, trace, usage) ==
    [type |-> "completion", hasRole |-> TRUE, role |-> messageRole,
     hasContent |-> TRUE, content |-> content, traceId |-> trace, usage |-> usage]

\* deltaEvent.delta.role || deltaEvent.delta.content
deltaChanged(delta) ==
    \/ delta.hasRole /\ delta.role # ""
    \/ delta.hasContent /\ delta.content # <<>>

\* choice.finish_reason === 'stop'
isTerminal(choice) == choice.finish_reason = "stop"

\* the loop body with the delta event carrying the running total
choiceStepRunningTotal(choice, st, trace, usage) ==
    LET delta == choice.delta
        role1 == IF delta.present /\ delta.hasRole THEN delta.role ELSE st.role
        acc1 == IF delta.present /\ delta.hasContent
                THEN st.accumulatedContent \o delta.content
                ELSE st.accumulatedContent
        out1 == IF delta.present /\ deltaChanged(delta)
                THEN Append(st.out, NormDelta(delta.hasRole, delta.role,
                                              delta.hasContent, acc1, trace))
                ELSE st.out
        out2 == IF isTerminal(choice)
                THEN Append(out1, NormCompletion(IF role1 = None THEN "assistant" ELSE role1,
                                                 acc1, trace, usage))
                ELSE out1
    IN [accumulatedContent |-> acc1, role |-> role1, out |-> out2]

\* the body of `for (const choice of choices)`: st holds accumulatedContent,
\* role and the events yielded while the chunk is processed
choiceStep(choice, st, trace, usage) ==
    LET delta == choice.delta
        role1 == IF delta.present /\ delta.hasRole THEN delta.role ELSE st.role
        acc1 == IF delta.present /\ delta.hasContent
                THEN st.accumulatedContent \o delta.content
                ELSE st.accumulatedContent
        out1 == IF delta.present /\ deltaChanged(delta)
                THEN Append(st.out, NormDelta(delta.hasRole, delta.role,
                                              delta.hasContent, delta.content, trace))
                ELSE st.out
        out2 == IF isTerminal(choice)
                THEN Append(out1, NormCompletion(IF role1 = None THEN "assistant" ELSE role1,
                                                 acc1, trace, usage))
                ELSE out1
    IN [accumulatedContent |-> acc1, role |-> role1, out |-> out2]

RECURSIVE forEachChoice(_, _, _, _)
forEachChoice(choices, st, trace, usage) ==
    IF choices = <<>> THEN st
    ELSE forEachChoice(Tail(choices), choiceStep(Head(choices), st, trace, usage),
                       trace, usage)

\* the parse failure reported as a permanent one
parseErrorPermanent(id) == AdapterThrows("PERMANENT", id)

\* new ProviderError('Failed to parse OpenAI stream payload', 'TEMPORARY', ...)
parseError(id) == AdapterThrows("TEMPORARY", id)

\* the sentinel test that never succeeds
isSentinelNever(data) == FALSE

\* data === '[DONE]'
isSentinel(data) == data = Sentinel

\* one iteration of `for await (const chunk of source)`
mapChatCompletionsStream ==
    /\ npc = "running"
    /\ pos < Len(blocks)
    /\ pos' = pos + 1
    /\ LET data == extractDataPayload(blocks[pos + 1]) IN
       IF data = Undefined \/ data = Blank
       THEN UNCHANGED <<npc, emitted, accumulatedContent, role, traceId, usageRaw, nerror>>
       ELSE IF isSentinel(data)
       THEN /\ npc' = "done"
            /\ UNCHANGED <<emitted, accumulatedContent, role, traceId, usageRaw, nerror>>
       ELSE IF parseFails(data)
       THEN /\ npc' = "failed"
            /\ nerror' = parseError(pos + 1)
            /\ UNCHANGED <<emitted, accumulatedContent, role, traceId, usageRaw>>
       ELSE IF data = JsonNull
       THEN \* parsed.id on null: a TypeError, thrown outside the try block
            /\ npc' = "failed"
            /\ nerror' = AdapterThrows(None, pos + 1)
            /\ UNCHANGED <<emitted, accumulatedContent, role, traceId, usageRaw>>
       ELSE LET trace == IF data.id # None THEN data.id ELSE traceId
                usage == IF data.usage # None THEN data.usage ELSE usageRaw
                st == forEachChoice(data.choices,
                                    [accumulatedContent |-> accumulatedContent,
                                     role |-> role, out |-> <<>>],
                                    trace, usage)
            IN /\ traceId' = trace
               /\ usageRaw' = usage
               /\ accumulatedContent' = st.accumulatedContent
               /\ role' = st.role
               /\ emitted' = emitted \o st.out
               /\ UNCHANGED <<npc, nerror>>
    /\ UNCHANGED blocks
    /\ UNCHANGED <<confVars, orchVars, adptVars, transVars, usageVars, concVars, healthVars>>

\* the source is exhausted: the for-await loop ends and the generator returns
SourceEnds ==
    /\ npc = "running"
    /\ pos = Len(blocks)
    /\ npc' = "done"
    /\ UNCHANGED <<blocks, pos, emitted, accumulatedContent, role, traceId, usageRaw, nerror>>
    /\ UNCHANGED <<confVars, orchVars, adptVars, transVars, usageVars, concVars, healthVars>>

InitStream ==
    /\ providers = <<>>
    /\ adapters = <<>>
    /\ maxAttempts = MaxAttemptsBound
    /\ ConfiguredDirectly
    /\ OrchIdle
    /\ blocks \in UNION {[1..n -> Chunks] : n \in 0..MaxBlocks}
    /\ pos = 0
    /\ npc = "running"
    /\ emitted = <<>>
    /\ accumulatedContent = <<>>
    /\ role = None
    /\ traceId = None
    /\ usageRaw = None
    /\ nerror = NoError
    /\ AdapterIdle
    /\ TransportIdle
    /\ UsageIdle
    /\ ConcurrentIdle
    /\ HealthIdle

NextStream == mapChatCompletionsStream \/ SourceEnds

SpecStream == InitStream /\ [][NextStream]_vars

(***************************************************************************)
(* Adapters (adapters/openaiAdapter.ts, anthropicAdapter.ts,               *)
(* lmstudioAdapter.ts, helpers.ts, fetchHttpClient.ts)                     *)
(***************************************************************************)
AdapterKinds == {"openai", "anthropic", "lmstudio"}

Operations == {"chat", "chatStream", "embed", "listModels"}

\* the methods the adapter classes define
hasMethod(kind, op) ==
    CASE kind = "openai" -> op \in {"chat", "chatStream", "embed"}
      [] kind = "anthropic" -> op = "chat"
      [] OTHER -> op \in Operations

\* no adapter asks the secrets provider for a key
needsSecretNever(kind) == FALSE

\* the adapters that call deps.secretsProvider.getSecret
needsSecret(kind) == kind \in {"openai", "anthropic"}

\* the HTTP statuses of the upstream responses under analysis
Statuses == {200, 204, 302, 400, 401, 403, 404, 429, 500, 503}

isSuccess(status) == status >= 200 /\ status < 300

\* helpers.ts, mapStatusToClassification
mapStatusToClassification(status) ==
    IF status = 401 \/ status = 403 THEN "AUTH"
    ELSE IF status = 429 THEN "RATE_LIMIT"
    ELSE IF status >= 500 THEN "TEMPORARY"
    ELSE IF status >= 400 THEN "PERMANENT"
    ELSE "TEMPORARY"

\* helpers.ts, createHttpError
createHttpError(status) == AdapterThrows(mapStatusToClassification(status), 0)

\* LMStudioAdapter.listModels: response.status >= 500 ? 'TEMPORARY' : 'CONFIG'
discoveryError(status) ==
    AdapterThrows(IF status >= 500 THEN "TEMPORARY" ELSE "CONFIG", 0)

\* throw new ProviderError('... request failed', 'TEMPORARY', { cause: error })
wrappedError == AdapterThrows("TEMPORARY", 0)

\* throw new ProviderError('... API key not configured', 'CONFIG')
configError == AdapterThrows("CONFIG", 0)

\* an error that is not a ProviderError: the Error of FetchHttpClient.postStream,
\* a rejected fetch or read, a TypeError
plainError == AdapterThrows(None, 0)

\* longest streaming response
MaxChunks == 2

\* the orchestrator invokes an operation of the adapter: the optional methods
\* are guarded at the call site; the adapter runs up to its HTTP request
Invoke(op) ==
    /\ apc = "idle"
    /\ aop' = op
    /\ IF ~hasMethod(adapterKind, op)
       THEN /\ apc' = "threw"
            /\ aerror' = LocalError("does not support")
            /\ UNCHANGED <<secretLookups, httpRequests>>
       ELSE /\ secretLookups' = IF needsSecret(adapterKind)
                                THEN secretLookups + 1 ELSE secretLookups
            /\ IF needsSecret(adapterKind) /\ ~hasApiKey
               THEN /\ apc' = "threw"
                    /\ aerror' = configError
                    /\ UNCHANGED httpRequests
               ELSE IF op = "chatStream" /\ ~clientStreams
               THEN /\ apc' = "threw"
                    /\ aerror' = configError
                    /\ UNCHANGED httpRequests
               ELSE /\ apc' = "awaitHttp"
                    /\ httpRequests' = httpRequests + 1
                    /\ UNCHANGED aerror
    /\ UNCHANGED <<adapterKind, hasApiKey, clientStreams, astatus, aread>>
    /\ UNCHANGED <<confVars, orchVars, normVars, transVars, usageVars, concVars, healthVars>>

\* the upstream answers: post and get resolve with the status, the generator
\* of postStream throws an Error on a status outside 2xx
HttpResponds(status, bodyOk) ==
    /\ apc = "awaitHttp"
    /\ astatus' = status
    /\ IF aop = "chatStream"
       THEN IF isSuccess(status)
            THEN apc' = "iterating" /\ UNCHANGED aerror
            ELSE apc' = "threw" /\ aerror' = plainError
       ELSE IF aop = "listModels"
       THEN IF isSuccess(status)
            THEN apc' = "returned" /\ UNCHANGED aerror
            ELSE apc' = "threw" /\ aerror' = discoveryError(status)
       ELSE IF ~isSuccess(status)
       THEN apc' = "threw" /\ aerror' = createHttpError(status)
       ELSE IF bodyOk
       THEN apc' = "returned" /\ UNCHANGED aerror
       ELSE apc' = "threw" /\ aerror' = wrappedError
    /\ UNCHANGED <<adapterKind, hasApiKey, clientStreams, aop, secretLookups,
                   httpRequests, aread>>
    /\ UNCHANGED <<confVars, orchVars, normVars, transVars, usageVars, concVars, healthVars>>

\* the HTTP client rejects (network failure): post and get are awaited inside
\* try/catch, the generator of postStream is iterated outside of it
HttpThrows ==
    /\ apc = "awaitHttp"
    /\ apc' = "threw"
    /\ aerror' = IF aop = "chatStream" THEN plainError ELSE wrappedError
    /\ UNCHANGED <<adapterKind, hasApiKey, clientStreams, aop, secretLookups,
                   httpRequests, astatus, aread>>
    /\ UNCHANGED <<confVars, orchVars, normVars, transVars, usageVars, concVars, healthVars>>

\* a chunk of the streaming response goes through mapChatCompletionsStream
ChunkArrives(chunk) ==
    /\ apc = "iterating"
    /\ aread < MaxChunks
    /\ aread' = aread + 1
    /\ LET data == extractDataPayload(chunk) IN
       IF data = Undefined \/ data = Blank
       THEN UNCHANGED <<apc, aerror>>
       ELSE IF isSentinel(data)
       THEN apc' = "returned" /\ UNCHANGED aerror
       ELSE IF parseFails(data)
       THEN apc' = "threw" /\ aerror' = parseError(0)
       ELSE IF data = JsonNull
       THEN apc' = "threw" /\ aerror' = plainError
       ELSE UNCHANGED <<apc, aerror>>
    /\ UNCHANGED <<adapterKind, hasApiKey, clientStreams, aop, secretLookups,
                   httpRequests, astatus>>
    /\ UNCHANGED <<confVars, orchVars, normVars, transVars, usageVars, concVars, healthVars>>

\* reader.read() rejects while the response body is consumed
ReadThrows ==
    /\ apc = "iterating"
    /\ apc' = "threw"
    /\ aerror' = plainError
    /\ UNCHANGED <<adapterKind, hasApiKey, clientStreams, aop, secretLookups,
                   httpRequests, astatus, aread>>
    /\ UNCHANGED <<confVars, orchVars, normVars, transVars, usageVars, concVars, healthVars>>

\* the response body ends
StreamCloses ==
    /\ apc = "iterating"
    /\ apc' = "returned"
    /\ UNCHANGED <<adapterKind, hasApiKey, clientStreams, aop, secretLookups,
                   httpRequests, astatus, aread, aerror>>
    /\ UNCHANGED <<confVars, orchVars, normVars, transVars, usageVars, concVars, healthVars>>

InitAdapter ==
    /\ providers = <<>>
    /\ adapters = <<>>
    /\ maxAttempts = MaxAttemptsBound
    /\ ConfiguredDirectly
    /\ OrchIdle
    /\ NormIdle
    /\ adapterKind \in AdapterKinds
    /\ hasApiKey \in BOOLEAN
    /\ clientStreams \in BOOLEAN
    /\ aop = None
    /\ apc = "idle"
    /\ secretLookups = 0
    /\ httpRequests = 0
    /\ astatus = 0
    /\ aread = 0
    /\ aerror = NoError
    /\ TransportIdle
    /\ UsageIdle
    /\ ConcurrentIdle
    /\ HealthIdle

NextAdapter ==
    \/ \E op \in Operations : Invoke(op)
    \/ \E status \in Statuses, bodyOk \in BOOLEAN : HttpResponds(status, bodyOk)
    \/ HttpThrows
    \/ \E chunk \in Chunks : ChunkArrives(chunk)
    \/ ReadThrows
    \/ StreamCloses

SpecAdapter == InitAdapter /\ [][NextAdapter]_vars

(***************************************************************************)
(* Transport (transport.ts, createServer)                                  *)
(***************************************************************************)
\* the method names the endpoints check against allowedMethods
Methods == {"chat", "chatStream", "embed", "models", "getHealth"}

\* the endpoints whose body is validated and whose call is rate limited
PostMethods == {"chat", "chatStream", "embed"}

Loopback == {"127.0.0.1", "::1", "::ffff:127.0.0.1"}

\* the values of the x-llm-caller-token header: none, registered, unknown
Tokens == {Absent, "tok-a", "tok-b", "tok-x"}

\* the requestId of the body
RequestIds == {"req-1", "req-2"}

HttpRequests ==
    [method : Methods, ip : Loopback \cup {"10.0.0.5"}, token : Tokens,
     valid : BOOLEAN, requestId : RequestIds]

ClientEntry(token, allowedMethods) ==
    [token |-> token, allowedMethods |-> allowedMethods]

\* the client registries under analysis
Registries ==
    {<<ClientEntry("tok-a", Methods), ClientEntry("tok-b", {"chat"})>>,
     <<ClientEntry("tok-b", {"chatStream", "models"})>>}

\* config.clients.find((entry) => entry.token === tokenHeader), 0 when none
RECURSIVE findClient(_, _, _)
findClient(registry, token, i) ==
    IF i > Len(registry) THEN 0
    ELSE IF registry[i].token = token THEN i
    ELSE findClient(registry, token, i + 1)

NoRejection == [status |-> 0, code |-> None]

\* errors.ts: new CallerError(message, code, status)
forbidden == [status |-> 403, code |-> "FORBIDDEN"]

unauthorized == [status |-> 401, code |-> "UNAUTHORIZED"]

internalError == [status |-> 500, code |-> "INTERNAL_ERROR"]

\* the hook with the token checked before the address
onRequestTokenFirst(req, registry) ==
    IF req.token = Absent THEN unauthorized
    ELSE IF findClient(registry, req.token, 1) = 0 THEN forbidden
    ELSE IF req.ip \notin Loopback THEN forbidden
    ELSE NoRejection

\* the onRequest hook: enforceLoopback(request), then authenticate(request, config)
onRequest(req, registry) ==
    IF req.ip \notin Loopback THEN forbidden
    ELSE IF req.token = Absent THEN unauthorized
    ELSE IF findClient(registry, req.token, 1) = 0 THEN forbidden
    ELSE NoRejection

RateLimit(maxRequests, intervalMs) ==
    [configured |-> TRUE, maxRequests |-> maxRequests, intervalMs |-> intervalMs]

\* the key of a bucket: the first 16 hex digits of the SHA-256 of the token,
\* taken as collision free
anonymizeToken(token) == <<"sha256", token>>

BucketKeys == {anonymizeToken(token) : token \in Tokens \ {Absent}}

\* buckets.get(bucketKey) of a key that was never set
NoBucket == [stored |-> FALSE, count |-> 0, windowStart |-> 0]

Bucket(count, windowStart) ==
    [stored |-> TRUE, count |-> count, windowStart |-> windowStart]

\* a retry hint in milliseconds; a number is held in half milliseconds
Millis(halves) == [type |-> "number", halves |-> halves]

\* NaN or Infinity
NonFinite == [type |-> "nonfinite", halves |-> 0]

\* the limiter that admits a request when the count has reached maxRequests
tryConsumeInclusive(token, table, t, config) ==
    IF token = Absent
    THEN [allowed |-> TRUE, buckets |-> table, retryAfterMs |-> NoHint]
    ELSE LET bucketKey == anonymizeToken(token)
             found == IF table[bucketKey].stored THEN table[bucketKey]
                      ELSE Bucket(0, t)
             bucket == IF t - found.windowStart >= config.intervalMs
                       THEN Bucket(0, t) ELSE found
         IN IF bucket.count <= config.maxRequests
            THEN [allowed |-> TRUE,
                  buckets |-> [table EXCEPT ![bucketKey] =
                                  Bucket(bucket.count + 1, bucket.windowStart)],
                  retryAfterMs |-> NoHint]
            ELSE LET remaining == bucket.windowStart + config.intervalMs - t IN
                 [allowed |-> FALSE,
                  buckets |-> [table EXCEPT ![bucketKey] = bucket],
                  retryAfterMs |-> Millis(2 * (IF remaining > 0 THEN remaining ELSE 0))]

\* rateLimiter.tryConsume(token) at Date.now() = t, over the Map buckets
tryConsume(token, table, t, config) ==
    IF token = Absent
    THEN [allowed |-> TRUE, buckets |-> table, retryAfterMs |-> NoHint]
    ELSE LET bucketKey == anonymizeToken(token)
             found == IF table[bucketKey].stored THEN table[bucketKey]
                      ELSE Bucket(0, t)
             bucket == IF t - found.windowStart >= config.intervalMs
                       THEN Bucket(0, t) ELSE found
         IN IF bucket.count < config.maxRequests
            THEN [allowed |-> TRUE,
                  buckets |-> [table EXCEPT ![bucketKey] =
                                  Bucket(bucket.count + 1, bucket.windowStart)],
                  retryAfterMs |-> NoHint]
            ELSE LET remaining == bucket.windowStart + config.intervalMs - t IN
                 [allowed |-> FALSE,
                  buckets |-> [table EXCEPT ![bucketKey] = bucket],
                  retryAfterMs |-> Millis(2 * (IF remaining > 0 THEN remaining ELSE 0))]

\* the orchestrator method an endpoint calls
orchestratorMethod(method) ==
    CASE method = "chat" -> "dispatchChat"
      [] method = "chatStream" -> "dispatchChatStream"
      [] method = "embed" -> "dispatchEmbed"
      [] method = "models" -> "listModels"
      [] OTHER -> "checkProviderHealth"

MAX_RETRY_AFTER_MS == 60000

\* clampRetryAfter without Math.ceil
clampRetryAfterNoCeil(value) ==
    IF value.type # "number" \/ value.halves <= 0 THEN NoHint
    ELSE IF value.halves < 2 * MAX_RETRY_AFTER_MS THEN Millis(value.halves)
    ELSE Millis(2 * MAX_RETRY_AFTER_MS)

\* clampRetryAfter: undefined for a value that is no finite positive number,
\* otherwise Math.min(Math.ceil(value), MAX_RETRY_AFTER_MS)
clampRetryAfter(value) ==
    IF value.type # "number" \/ value.halves <= 0 THEN NoHint
    ELSE LET ceiled == (value.halves + 1) \div 2 IN
         IF ceiled < MAX_RETRY_AFTER_MS THEN Millis(2 * ceiled)
         ELSE Millis(2 * MAX_RETRY_AFTER_MS)

\* formatRetryAfter: the header value, in seconds, as a number
formatRetryAfter(milliseconds) ==
    LET seconds == (milliseconds.halves + 1999) \div 2000 IN
    IF seconds > 0 THEN seconds ELSE 1

\* if (retryAfterMs) reply.header('Retry-After', ...): 0 when no header is set
retryAfterHeader(retryAfterMs) ==
    IF retryAfterMs.type = "number" /\ retryAfterMs.halves # 0
    THEN formatRetryAfter(retryAfterMs) ELSE 0

\* the retry hints an error or a response of the orchestrator may carry:
\* none, NaN, 0, -1500, 0.5, 1500.5, 60000 and 90000.5 milliseconds
Hints ==
    {NoHint, NonFinite, Millis(0), Millis(-3000), Millis(1), Millis(3001),
     Millis(120000), Millis(180001)}

\* message and cause of an error: upstream text the adapter put there
Details ==
    {[message |-> "lmstudio responded 500: disk full", cause |-> "upstream body"],
     [message |-> "openai chat failed", cause |-> None]}

\* the errors the orchestrator raises: ProviderErrors and errors of another type
OrchestratorErrors ==
    {[kind |-> "ProviderError", classification |-> classification,
      retryAfterMs |-> hint, message |-> detail.message, cause |-> detail.cause] :
        classification \in Classifications, hint \in Hints, detail \in Details}
    \cup {[kind |-> "Error", classification |-> None, retryAfterMs |-> NoHint,
           message |-> detail.message, cause |-> detail.cause] : detail \in Details}

\* the mapping with upstream authentication failures reported as 401
mapProviderErrorToStatusAuth401(error) ==
    CASE error.classification = "RATE_LIMIT" -> 429
      [] error.classification = "AUTH" -> 401
      [] error.classification = "PERMANENT" -> 422
      [] error.classification = "CONFIG" -> 500
      [] OTHER -> 503

mapProviderErrorToStatus(error) ==
    CASE error.classification = "RATE_LIMIT" -> 429
      [] error.classification = "AUTH" -> 502
      [] error.classification = "PERMANENT" -> 422
      [] error.classification = "CONFIG" -> 500
      [] OTHER -> 503

\* the message with the text of the error for a classification without a case
normalizeProviderMessageRaw(error) ==
    CASE error.classification = "RATE_LIMIT" -> "Provider rate limited the request."
      [] error.classification = "AUTH" -> "Provider authentication failed."
      [] error.classification = "TEMPORARY" -> error.message
      [] error.classification = "PERMANENT" -> "Provider rejected the request."
      [] error.classification = "CONFIG" -> "Provider configuration error."
      [] OTHER -> "Provider error."

normalizeProviderMessage(error) ==
    CASE error.classification = "RATE_LIMIT" -> "Provider rate limited the request."
      [] error.classification = "AUTH" -> "Provider authentication failed."
      [] error.classification = "TEMPORARY" -> "Provider encountered a temporary error."
      [] error.classification = "PERMANENT" -> "Provider rejected the request."
      [] error.classification = "CONFIG" -> "Provider configuration error."
      [] OTHER -> "Provider error."

\* what the reply carries besides the status and the error field
Reply(message, retryAfterMs, trace) ==
    [message |-> message, retryAfterMs |-> retryAfterMs, traceId |-> trace,
     retryAfter |-> retryAfterHeader(retryAfterMs)]

\* sendProviderError(reply, error, logger, requestId)
sendProviderError(error, requestId) ==
    [status |-> mapProviderErrorToStatus(error),
     error |-> error.classification,
     reply |-> Reply(normalizeProviderMessage(error),
                     clampRetryAfter(error.retryAfterMs), requestId)]

\* the 429 answer of consumeRateLimit for the hint of the rate limiter
rateLimitReply(retryAfterMs, requestId) ==
    LET clamped == clampRetryAfter(retryAfterMs)
        clampResult == IF clamped = NoHint THEN Millis(2 * MAX_RETRY_AFTER_MS)
                       ELSE clamped
    IN [message |-> "Too many requests; slow down.",
        retryAfterMs |-> clampResult, traceId |-> requestId,
        retryAfter |-> formatRetryAfter(clampResult)]

\* response.traceId of a response of the orchestrator
ResponseTrace == "trace-upstream"

Frame(type, error, message, retryAfterMs) ==
    [type |-> type, error |-> error, message |-> message,
     retryAfterMs |-> retryAfterMs]

EventFrame == Frame("event", None, None, NoHint)

DoneFrame == Frame("[DONE]", None, None, NoHint)

\* the frame written for a failed stream
ErrorFrame(error) ==
    IF error.kind = "ProviderError"
    THEN Frame("error", error.classification, normalizeProviderMessage(error),
               clampRetryAfter(error.retryAfterMs))
    ELSE Frame("error", "INTERNAL_ERROR", "Chat stream failed", NoHint)

\* longest stream of events the orchestrator hands to the handler
MaxFrames == 2

\* reply.status(...).send(...): the response is complete
Replies(status, code, reply) ==
    /\ tstatus' = status
    /\ tcode' = code
    /\ treply' = reply
    /\ tpc' = "done"
    /\ UNCHANGED <<orchCalls, tseen, frames, ended, tfailure, tresult>>

\* the body the error handler sends for a CallerError: the error field, and
\* a message that is a literal of the throw site, which is not tracked
CallerReply(rejection) == NoReply

\* a request arrives: the onRequest hook and the handler up to its first
\* await; sync tells whether dispatchChatStream throws instead of returning
\* a stream
Receive(req, sync) ==
    /\ tpc = "idle"
    /\ treq' = req
    /\ LET rejection == onRequest(req, clients)
           client == clients[findClient(clients, req.token, 1)]
           limited == limiter.configured /\ req.method \in PostMethods
           consumed == tryConsume(req.token, buckets, now, limiter)
       IN IF rejection # NoRejection
          THEN /\ Replies(rejection.status, rejection.code, CallerReply(rejection))
               /\ UNCHANGED buckets
          ELSE IF req.method \notin client.allowedMethods
          THEN /\ Replies(forbidden.status, forbidden.code, CallerReply(forbidden))
               /\ UNCHANGED buckets
          ELSE IF req.method \in PostMethods /\ ~req.valid
          THEN \* createValidator throws an Error: the error handler answers
               /\ Replies(internalError.status, internalError.code,
                          CallerReply(internalError))
               /\ UNCHANGED buckets
          ELSE /\ buckets' = IF limited THEN consumed.buckets ELSE buckets
               /\ IF limited /\ ~consumed.allowed
                  THEN Replies(429, "RATE_LIMIT",
                               rateLimitReply(consumed.retryAfterMs, req.requestId))
                  ELSE /\ orchCalls' = <<orchestratorMethod(req.method)>>
                       /\ IF req.method # "chatStream"
                          THEN /\ tpc' = "awaitOrch"
                               /\ UNCHANGED <<tstatus, tcode, treply, tseen, frames,
                                              ended, tfailure, tresult>>
                          ELSE \* reply.raw.writeHead(200, ...); reply.hijack()
                               /\ tstatus' = 200
                               /\ UNCHANGED <<tcode, treply, tseen, frames>>
                               /\ IF sync
                                  THEN \* the handler rejects after reply.hijack():
                                       \* nothing is written; whether the socket
                                       \* gets closed is up to the framework
                                       /\ tpc' = "done"
                                       /\ tfailure' \in OrchestratorErrors
                                       /\ UNCHANGED tresult
                                       /\ ended' \in BOOLEAN
                                  ELSE /\ tpc' = "streaming"
                                       /\ UNCHANGED <<ended, tfailure, tresult>>
    /\ UNCHANGED <<clients, limiter, now, handlers>>
    /\ UNCHANGED <<confVars, orchVars, normVars, adptVars, usageVars, concVars, healthVars>>

\* the orchestrator call resolves; isRecord: the payload is an object,
\* retryAfterMs: the hint of the response
OrchResolves(isRecord, retryAfterMs) ==
    /\ tpc = "awaitOrch"
    /\ IF treq.method \in {"chat", "embed"} /\ ~isRecord
       THEN /\ tstatus' = internalError.status /\ tcode' = internalError.code
            /\ treply' = CallerReply(internalError)
       ELSE /\ tstatus' = 200 /\ tcode' = None
            /\ treply' = IF treq.method \in {"chat", "embed"}
                         THEN Reply(None, clampRetryAfter(retryAfterMs), ResponseTrace)
                         ELSE NoReply
    /\ tresult' = retryAfterMs
    /\ tpc' = "done"
    /\ UNCHANGED <<clients, limiter, buckets, now, handlers, treq, orchCalls, tseen,
                   frames, ended, tfailure>>
    /\ UNCHANGED <<confVars, orchVars, normVars, adptVars, usageVars, concVars, healthVars>>

\* the orchestrator call rejects
OrchRejects(error) ==
    /\ tpc = "awaitOrch"
    /\ tfailure' = error
    /\ UNCHANGED tresult
    /\ IF treq.method = "getHealth"
       THEN \* buildHealthComponents reports a failed component
            /\ tstatus' = 200 /\ tcode' = None /\ treply' = NoReply
       ELSE IF treq.method \in {"chat", "embed"} /\ error.kind = "ProviderError"
       THEN LET sent == sendProviderError(error, treq.requestId) IN
            /\ tstatus' = sent.status
            /\ tcode' = sent.error
            /\ treply' = sent.reply
       ELSE /\ tstatus' = internalError.status /\ tcode' = internalError.code
            /\ treply' = CallerReply(internalError)
    /\ tpc' = "done"
    /\ UNCHANGED <<clients, limiter, buckets, now, handlers, treq, orchCalls, tseen,
                   frames, ended>>
    /\ UNCHANGED <<confVars, orchVars, normVars, adptVars, usageVars, concVars, healthVars>>

\* the stream yields an event; kept: sanitizeStreamEvent returned a frame
StreamEvent(kept) ==
    /\ tpc = "streaming"
    /\ tseen < MaxFrames
    /\ tseen' = tseen + 1
    /\ frames' = IF kept THEN Append(frames, EventFrame) ELSE frames
    /\ UNCHANGED <<clients, limiter, buckets, now, handlers, treq, tpc, tstatus,
                   tcode, treply, orchCalls, ended, tfailure, tresult>>
    /\ UNCHANGED <<confVars, orchVars, normVars, adptVars, usageVars, concVars, healthVars>>

\* the stream is exhausted
StreamCompletes ==
    /\ tpc = "streaming"
    /\ frames' = Append(frames, DoneFrame)
    /\ ended' = TRUE
    /\ tpc' = "done"
    /\ UNCHANGED <<clients, limiter, buckets, now, handlers, treq, tstatus, tcode,
                   treply, orchCalls, tseen, tfailure, tresult>>
    /\ UNCHANGED <<confVars, orchVars, normVars, adptVars, usageVars, concVars, healthVars>>

\* iterating the stream throws: the catch and finally blocks of the handler
StreamThrows(error) ==
    /\ tpc = "streaming"
    /\ tfailure' = error
    /\ UNCHANGED tresult
    /\ frames' = frames \o <<ErrorFrame(error), DoneFrame>>
    /\ ended' = TRUE
    /\ tpc' = "done"
    /\ UNCHANGED <<clients, limiter, buckets, now, handlers, treq, tstatus, tcode,
                   treply, orchCalls, tseen>>
    /\ UNCHANGED <<confVars, orchVars, normVars, adptVars, usageVars, concVars, healthVars>>

\* the rate limits under analysis for one request
RateLimits ==
    {NoRateLimit, RateLimit(1, 60000), RateLimit(1, 90000), RateLimit(0, 0)}

\* the start of the window of the buckets that exist when the request arrives
WindowStart == 60000

\* Date.now() when the request arrives
Instants == {60001, 85500, 150000}

\* the tokens of a registry
tokensOf(registry) == {registry[i].token : i \in 1..Len(registry)}

\* the Maps the rate limiter can hold: a bucket per token that was admitted
BucketTables(registry, config) ==
    IF ~config.configured THEN {[key \in BucketKeys |-> NoBucket]}
    ELSE {table \in [BucketKeys -> {NoBucket, Bucket(config.maxRequests, WindowStart)}] :
             \A token \in Tokens \ {Absent} :
                token \notin tokensOf(registry) =>
                    table[anonymizeToken(token)] = NoBucket}

InitTransport ==
    /\ providers = <<>>
    /\ adapters = <<>>
    /\ maxAttempts = MaxAttemptsBound
    /\ ConfiguredDirectly
    /\ OrchIdle
    /\ NormIdle
    /\ AdapterIdle
    /\ clients \in Registries
    /\ limiter \in RateLimits
    /\ buckets \in BucketTables(clients, limiter)
    /\ now \in Instants
    /\ handlers = <<>>
    /\ treq = NoHttpRequest
    /\ tpc = "idle"
    /\ tstatus = 0
    /\ tcode = None
    /\ treply = NoReply
    /\ orchCalls = <<>>
    /\ tseen = 0
    /\ frames = <<>>
    /\ ended = FALSE
    /\ tfailure = NoFailure
    /\ tresult = NoHint
    /\ UsageIdle
    /\ ConcurrentIdle
    /\ HealthIdle

NextTransport ==
    \/ \E req \in HttpRequests, sync \in BOOLEAN : Receive(req, sync)
    \/ \E isRecord \in BOOLEAN, retryAfterMs \in Hints :
          OrchResolves(isRecord, retryAfterMs)
    \/ \E error \in OrchestratorErrors : OrchRejects(error)
    \/ \E kept \in BOOLEAN : StreamEvent(kept)
    \/ StreamCompletes
    \/ \E error \in OrchestratorErrors : StreamThrows(error)

SpecTransport == InitTransport /\ [][NextTransport]_vars

(***************************************************************************)
(* Concurrent requests at the rate limiter (transport.ts, consumeRateLimit *)
(* and createRateLimiter)                                                  *)
(***************************************************************************)
\* number of requests in flight
MaxHandlers == 3

\* last instant of the clock
MaxTime == 2

\* the registered tokens that send the requests
LimitedTokens == {"tok-a", "tok-b"}

\* the endpoints the concurrent requests call
ConcurrentMethods == {"chat", "models"}

\* windowStart of a handler that did not consult the rate limiter in a window
NoWindow == -1

\* a handler that has no request yet
NoHandler ==
    [token |-> None, method |-> None, pc |-> "idle", status |-> 0, code |-> None,
     called |-> FALSE, windowStart |-> NoWindow]

\* a request of a registered token to an endpoint its client is allowed to
\* call passed the onRequest hook: its handler is scheduled; handlers are
\* numbered in the order of arrival
Arrives(h, token, method) ==
    /\ handlers[h].pc = "idle"
    /\ h > 1 => handlers[h - 1].pc # "idle"
    /\ method \in clients[findClient(clients, token, 1)].allowedMethods
    /\ handlers' = [handlers EXCEPT ![h] = [NoHandler EXCEPT !.token = token,
                                                              !.method = method,
                                                              !.pc = "hooked"]]
    /\ UNCHANGED <<clients, limiter, buckets, now, treq, tpc, tstatus, tcode,
                   treply, orchCalls, tseen, frames, ended, tfailure, tresult>>
    /\ UNCHANGED <<confVars, orchVars, normVars, adptVars, usageVars, concVars, healthVars>>

\* a handler runs to its first await. The chat and embed handlers call
\* consumeRateLimit, which has no await between the read and the write of
\* the bucket, and then either send the 429 answer or call the
\* orchestrator; the models handler calls orchestrator.listModels without
\* consulting the rate limiter
Handles(h) ==
    /\ handlers[h].pc = "hooked"
    /\ LET key == anonymizeToken(handlers[h].token)
           consumed == tryConsume(handlers[h].token, buckets, now, limiter)
           open == buckets[key].stored
                   /\ now - buckets[key].windowStart < limiter.intervalMs
       IN IF handlers[h].method \in PostMethods
          THEN /\ buckets' = consumed.buckets
               /\ handlers' =
                     [handlers EXCEPT ![h] =
                         IF consumed.allowed
                         THEN [@ EXCEPT !.pc = "awaitOrch", !.called = TRUE,
                                        !.windowStart = consumed.buckets[key].windowStart]
                         ELSE [@ EXCEPT !.pc = "done", !.status = 429,
                                        !.code = "RATE_LIMIT",
                                        !.windowStart = consumed.buckets[key].windowStart]]
          ELSE /\ UNCHANGED buckets
               /\ handlers' =
                     [handlers EXCEPT ![h] =
                         [@ EXCEPT !.pc = "awaitOrch", !.called = TRUE,
                                   !.windowStart = IF open THEN buckets[key].windowStart
                                                   ELSE NoWindow]]
    /\ UNCHANGED <<clients, limiter, now, treq, tpc, tstatus, tcode, treply,
                   orchCalls, tseen, frames, ended, tfailure, tresult>>
    /\ UNCHANGED <<confVars, orchVars, normVars, adptVars, usageVars, concVars, healthVars>>

\* the orchestrator call of a handler resolves and the handler answers
Settles(h) ==
    /\ handlers[h].pc = "awaitOrch"
    /\ handlers' = [handlers EXCEPT ![h] = [@ EXCEPT !.pc = "done", !.status = 200]]
    /\ UNCHANGED <<clients, limiter, buckets, now, treq, tpc, tstatus, tcode,
                   treply, orchCalls, tseen, frames, ended, tfailure, tresult>>
    /\ UNCHANGED <<confVars, orchVars, normVars, adptVars, usageVars, concVars, healthVars>>

\* a millisecond passes
Tick ==
    /\ now < MaxTime
    /\ now' = now + 1
    /\ UNCHANGED <<clients, limiter, buckets, handlers, treq, tpc, tstatus, tcode,
                   treply, orchCalls, tseen, frames, ended, tfailure, tresult>>
    /\ UNCHANGED <<confVars, orchVars, normVars, adptVars, usageVars, concVars, healthVars>>

\* the rate limits of the concurrent requests: loadConfig floors both values
\* after it has checked that they are positive
ConcurrentRateLimits ==
    {RateLimit(maxRequests, intervalMs) :
        maxRequests \in {0, 1, 2}, intervalMs \in {2}}

InitRateLimit ==
    /\ providers = <<>>
    /\ adapters = <<>>
    /\ maxAttempts = MaxAttemptsBound
    /\ ConfiguredDirectly
    /\ OrchIdle
    /\ NormIdle
    /\ AdapterIdle
    /\ clients = <<ClientEntry("tok-a", Methods), ClientEntry("tok-b", {"chat"})>>
    /\ limiter \in ConcurrentRateLimits
    /\ buckets = [key \in BucketKeys |-> NoBucket]
    /\ now = 0
    /\ handlers = [h \in 1..MaxHandlers |-> NoHandler]
    /\ treq = NoHttpRequest
    /\ tpc = "idle"
    /\ tstatus = 0
    /\ tcode = None
    /\ treply = NoReply
    /\ orchCalls = <<>>
    /\ tseen = 0
    /\ frames = <<>>
    /\ ended = FALSE
    /\ tfailure = NoFailure
    /\ tresult = NoHint
    /\ UsageIdle
    /\ ConcurrentIdle
    /\ HealthIdle

NextRateLimit ==
    \/ \E h \in 1..MaxHandlers, token \in LimitedTokens, method \in ConcurrentMethods :
          Arrives(h, token, method)
    \/ \E h \in 1..MaxHandlers : Handles(h)
    \/ \E h \in 1..MaxHandlers : Settles(h)
    \/ Tick

SpecRateLimit == InitRateLimit /\ [][NextRateLimit]_vars

(***************************************************************************)
(* Usage normalization (adapters/openaiAdapter.ts, anthropicAdapter.ts)    *)
(***************************************************************************)
\* the values of a field of body.usage: absent, "abc", -1.5, 0, 2.5, 7, "2"
\* and "12abc"
RawCounts ==
    {Missing, JsonText, JsonNumber(-3), JsonNumber(0), JsonNumber(5), JsonNumber(14),
     Numeral(4), Prefixed(24)}

\* body.usage when it is an object
RawUsages ==
    [isObject : {TRUE}, prompt_tokens : RawCounts, input_tokens : RawCounts,
     completion_tokens : RawCounts, output_tokens : RawCounts,
     total_tokens : RawCounts]

\* the base of a body.usage that is no object: {}
EmptyUsage ==
    [isObject |-> FALSE, prompt_tokens |-> Missing, input_tokens |-> Missing,
     completion_tokens |-> Missing, output_tokens |-> Missing,
     total_tokens |-> Missing]

\* the result of toNumber: undefined, or a finite number in halves
NoNumber == [defined |-> FALSE, halves |-> 0]

Finite(halves) == [defined |-> TRUE, halves |-> halves]

\* toNumber of openaiAdapter.ts: a finite number, or a string that Number()
\* converts to one
toNumber(value) ==
    IF value.type \in {"number", "numeral"} THEN Finite(value.halves) ELSE NoNumber

\* toNumber of anthropicAdapter.ts: a finite number, or a string that
\* Number.parseFloat() converts to one
anthropicToNumber(value) ==
    IF value.type \in {"number", "numeral", "prefixed"} THEN Finite(value.halves)
    ELSE NoNumber

\* a ?? b on the results of toNumber
orElse(a, b) == IF a.defined THEN a ELSE b

\* clampNonNegative of openaiAdapter.ts, on halves: 0 for a value that is not
\* positive, otherwise Math.round(value)
clampNonNegative(halves) ==
    IF halves <= 0 THEN 0 ELSE 2 * ((halves + 1) \div 2)

\* clampNonNegative of anthropicAdapter.ts
anthropicClampNonNegative(halves) ==
    IF halves <= 0 THEN 0 ELSE 2 * ((halves + 1) \div 2)

\* a field of the normalized usage that is not set
NoField == [present |-> FALSE, halves |-> 0]

Field(halves) == [present |-> TRUE, halves |-> halves]

Usage(inputTokens, outputTokens, totalTokens) ==
    [inputTokens |-> inputTokens, outputTokens |-> outputTokens,
     totalTokens |-> totalTokens]

\* normalizeChatUsage with the total derived from the normalized counts
normalizeChatUsageOfClamped(raw) ==
    LET base == IF raw.isObject THEN raw ELSE EmptyUsage
        input == orElse(toNumber(base.prompt_tokens),
                        orElse(toNumber(base.input_tokens), Finite(0)))
        output == orElse(toNumber(base.completion_tokens),
                         orElse(toNumber(base.output_tokens), Finite(0)))
        total == toNumber(base.total_tokens)
        derivedTotal == orElse(total, Finite(clampNonNegative(input.halves)
                                             + clampNonNegative(output.halves)))
    IN Usage(Field(clampNonNegative(input.halves)),
             Field(clampNonNegative(output.halves)),
             Field(clampNonNegative(derivedTotal.halves)))

\* normalizeChatUsage(raw): input and output are numbers in every case, so
\* the derived total is always defined
normalizeChatUsage(raw) ==
    LET base == IF raw.isObject THEN raw ELSE EmptyUsage
        input == orElse(toNumber(base.prompt_tokens),
                        orElse(toNumber(base.input_tokens), Finite(0)))
        output == orElse(toNumber(base.completion_tokens),
                         orElse(toNumber(base.output_tokens), Finite(0)))
        total == toNumber(base.total_tokens)
        derivedTotal == orElse(total, Finite(input.halves + output.halves))
    IN Usage(Field(clampNonNegative(input.halves)),
             Field(clampNonNegative(output.halves)),
             Field(clampNonNegative(derivedTotal.halves)))

\* normalizeEmbeddingUsage(raw)
normalizeEmbeddingUsage(raw) ==
    LET base == IF raw.isObject THEN raw ELSE EmptyUsage
        input == orElse(toNumber(base.prompt_tokens),
                        orElse(toNumber(base.input_tokens), Finite(0)))
        output == orElse(toNumber(base.completion_tokens),
                         toNumber(base.output_tokens))
        total == toNumber(base.total_tokens)
        derivedTotal == orElse(total, IF output.defined
                                      THEN Finite(input.halves + output.halves)
                                      ELSE NoNumber)
    IN Usage(Field(clampNonNegative(input.halves)),
             IF output.defined THEN Field(clampNonNegative(output.halves))
             ELSE NoField,
             IF derivedTotal.defined THEN Field(clampNonNegative(derivedTotal.halves))
             ELSE NoField)

\* normalizeAnthropicUsage(raw)
normalizeAnthropicUsage(raw) ==
    LET base == IF raw.isObject THEN raw ELSE EmptyUsage
        input == orElse(anthropicToNumber(base.input_tokens), Finite(0))
        output == orElse(anthropicToNumber(base.output_tokens), Finite(0))
        total == anthropicToNumber(base.total_tokens)
    IN Usage(Field(anthropicClampNonNegative(input.halves)),
             Field(anthropicClampNonNegative(output.halves)),
             IF total.defined THEN Field(anthropicClampNonNegative(total.halves))
             ELSE NoField)

\* the normalizers: of the chat and stream responses of the OpenAI and
\* LM Studio adapters, of their embeddings responses, and of the chat
\* responses of the Anthropic adapter
Normalizers ==
    {"normalizeChatUsage", "normalizeEmbeddingUsage", "normalizeAnthropicUsage"}

\* the adapter normalizes the usage of a response
NormalizesUsage ==
    /\ upc = "idle"
    /\ normalizedUsage' =
          CASE normalizer = "normalizeChatUsage" -> normalizeChatUsage(rawUsage)
            [] normalizer = "normalizeEmbeddingUsage" -> normalizeEmbeddingUsage(rawUsage)
            [] OTHER -> normalizeAnthropicUsage(rawUsage)
    /\ upc' = "done"
    /\ UNCHANGED <<normalizer, rawUsage>>
    /\ UNCHANGED <<confVars, orchVars, normVars, adptVars, transVars, concVars, healthVars>>

InitUsage ==
    /\ providers = <<>>
    /\ adapters = <<>>
    /\ maxAttempts = MaxAttemptsBound
    /\ ConfiguredDirectly
    /\ OrchIdle
    /\ NormIdle
    /\ AdapterIdle
    /\ TransportIdle
    /\ normalizer \in Normalizers
    /\ rawUsage \in RawUsages \cup {EmptyUsage}
    /\ normalizedUsage = Usage(NoField, NoField, NoField)
    /\ upc = "idle"
    /\ ConcurrentIdle
    /\ HealthIdle

NextUsage == NormalizesUsage

SpecUsage == InitUsage /\ [][NextUsage]_vars

(***************************************************************************)
(* Concurrent dispatches (orchestrator.ts, createOrchestrator)             *)
(***************************************************************************)
\* most dispatches one behaviour starts
MaxDispatches == 3

\* the requests of the concurrent dispatches: they name no provider
ConcurrentRequests ==
    [op : Capabilities, provider : {None}, model : {NoModel}]

\* the configurations of the concurrent dispatches: the second provider
\* holds the chat defaults; the providers split the capabilities
ConcurrentConfigs ==
    {<<ProviderEntry("alpha", Capabilities, {}, NoScores),
       ProviderEntry("beta", Capabilities, {"chat", "chatStream"}, NoScores)>>,
     <<ProviderEntry("alpha", {"chat"}, {}, NoScores),
       ProviderEntry("beta", {"chatStream", "embed"}, {"embed"}, NoScores)>>}

\* the upstream stream a streaming adapter reads
ConcurrentStream ==
    <<JsonObject("id1", None, <<Choice(Delta(TRUE, "assistant", TRUE, <<"Hel">>), None)>>),
      JsonObject(None, "u1", <<Choice(Delta(FALSE, None, TRUE, <<"lo">>), "stop")>>)>>

\* mapChatCompletionsStream: let accumulatedContent = ''; let role; let
\* traceId; let usageRaw
NoAccumulation ==
    [accumulatedContent |-> <<>>, role |-> None, traceId |-> None, usageRaw |-> None]

\* what an adapter answered to a dispatch: it resolved, it rejected, its
\* stream read a chunk, its stream ended (the streams of the concurrent
\* dispatches do not throw)
Answer(kind, classification, chunk) ==
    [kind |-> kind, classification |-> classification, chunk |-> chunk]

NoChunk == JsonObject(None, None, <<>>)

Resolved == Answer("resolve", None, NoChunk)

Rejected(classification) == Answer("reject", classification, NoChunk)

ChunkRead(chunk) == Answer("chunk", None, chunk)

StreamEnded == Answer("end", None, NoChunk)

\* the locals of one call of dispatchChat, dispatchEmbed or dispatchChatStream
\* and of the calls it makes; inputs observes the adapter's answers
Locals(req, selection, normalized, state, n) ==
    [request |-> req, routing |-> selection, adapterRequest |-> normalized,
     pc |-> state, attempt |-> n, lastProviderError |-> NoError,
     stream |-> NoAccumulation, inputs |-> <<>>,
     response |-> NoResponse, raised |-> NoError, delivered |-> <<>>]

\* a dispatch up to the first adapter call
beginDispatch(req, entries, list) ==
    LET selection == resolveRoutingSelection(req.op, req, entries)
        providerConfig == ProviderConfigOf(entries, selection.providerKey)
        selected == IF selection.ok
                    THEN selectAdapter(selection.providerKey, providerConfig,
                                       list, CheckedCapability(req.op))
                    ELSE AdapterError(None)
        error == prefixError(selection, selected,
                             selected.ok /\ MethodMissing(req.op, selected.adapter))
    IN IF error # NoError
       THEN [Locals(req, selection, NoRequest, "threw", 0) EXCEPT !.raised = error]
       ELSE Locals(req, selection,
                   normalizeRequest(req, selection.providerKey, providerConfig,
                                    selection.model),
                   IF req.op = "chatStream" THEN "streaming" ELSE "awaitAdapter",
                   IF req.op = "chat" THEN 1 ELSE 0)

\* adapter.chat or adapter.embed resolves
afterResolve(d, n) ==
    [d EXCEPT !.pc = "returned",
              !.response = responseOf(IF d.request.op = "chat" THEN n ELSE 1,
                                      d.routing, d.adapterRequest, d.request.op,
                                      PlainPayload)]

\* adapter.chat rejects in executeWithRetry, or adapter.embed rejects
afterReject(d, n, classification, max) ==
    LET error == AdapterThrows(classification, Len(d.inputs) + 1)
        decision == IF d.request.op = "chat" THEN catchDecision(error, n, max)
                    ELSE "throw"
        last == lastErrorAfter(error, d.lastProviderError)
    IN CASE decision = "continue" ->
               [d EXCEPT !.attempt = n + 1, !.lastProviderError = last]
         [] decision = "break" ->
               [d EXCEPT !.pc = "threw", !.lastProviderError = last,
                         !.raised = exhaustedError(last)]
         [] OTHER ->
               [d EXCEPT !.pc = "threw", !.raised = error]

\* the completion event's payload as the orchestrator re-yields it
deliveredEvent(event, d) ==
    [event |-> event,
     payload |-> IF event.type = "completion"
                 THEN attachRoutingMetadata(
                          InfoPayload(d.routing.providerKey, d.adapterRequest.model, NoMeta),
                          contextOf(d.routing, d.adapterRequest, "chatStream"))
                 ELSE NoPayload]

\* one iteration of the adapter's mapChatCompletionsStream over a parsed
\* chunk, its events re-yielded by attachRoutingToStream
afterChunk(d, accumulation, data) ==
    LET trace == IF data.id # None THEN data.id ELSE accumulation.traceId
        usage == IF data.usage # None THEN data.usage ELSE accumulation.usageRaw
        st == forEachChoice(data.choices,
                            [accumulatedContent |-> accumulation.accumulatedContent,
                             role |-> accumulation.role, out |-> <<>>],
                            trace, usage)
    IN [d EXCEPT !.stream = [accumulatedContent |-> st.accumulatedContent,
                             role |-> st.role, traceId |-> trace, usageRaw |-> usage],
                 !.delivered = d.delivered
                     \o [k \in 1..Len(st.out) |-> deliveredEvent(st.out[k], d)]]

\* the counter a call of executeWithRetry reads and writes, shared by all
\* calls
attemptOfShared(all, i) ==
    LET RECURSIVE most(_)
        most(k) == IF k = 0 THEN 0
                   ELSE IF all[k].attempt > most(k - 1) THEN all[k].attempt
                   ELSE most(k - 1)
    IN most(Len(all))

\* executeWithRetry: `let attempt = 0` is declared in the body of the call,
\* so a call reads and writes its own counter
attemptOf(all, i) == all[i].attempt

\* mapChatCompletionsStream: the accumulation variables are declared in the
\* body of the generator, so a stream reads and writes its own
accumulationOf(all, i) == all[i].stream

\* what the i-th dispatch becomes when its adapter answers
afterAnswer(all, i, answer, max) ==
    LET d == [all[i] EXCEPT !.inputs = Append(all[i].inputs, answer)]
        before == all[i]
    IN CASE answer.kind = "resolve" -> afterResolve(d, attemptOf(all, i))
         [] answer.kind = "reject" ->
               [afterReject(before, attemptOf(all, i), answer.classification, max)
                   EXCEPT !.inputs = d.inputs]
         [] answer.kind = "chunk" -> afterChunk(d, accumulationOf(all, i), answer.chunk)
         [] OTHER -> [d EXCEPT !.pc = "returned"]

\* a caller starts a dispatch while others are in flight
Begins(req) ==
    /\ Len(dispatches) < MaxDispatches
    /\ dispatches' = Append(dispatches, beginDispatch(req, providers, adapters))
    /\ UNCHANGED <<confVars, orchVars, normVars, adptVars, transVars, usageVars, healthVars>>

\* adapter.chat or adapter.embed resolves for the i-th dispatch
Resolves(i) ==
    /\ dispatches[i].pc = "awaitAdapter"
    /\ dispatches' = [dispatches EXCEPT
                         ![i] = afterAnswer(dispatches, i, Resolved, maxAttempts)]
    /\ UNCHANGED <<confVars, orchVars, normVars, adptVars, transVars, usageVars, healthVars>>

\* adapter.chat or adapter.embed rejects for the i-th dispatch
Rejects(i, classification) ==
    /\ dispatches[i].pc = "awaitAdapter"
    /\ dispatches[i].request.op = "chat" \/ classification = "TEMPORARY"
    /\ dispatches' = [dispatches EXCEPT
                         ![i] = afterAnswer(dispatches, i, Rejected(classification),
                                            maxAttempts)]
    /\ UNCHANGED <<confVars, orchVars, normVars, adptVars, transVars, usageVars, healthVars>>

\* the stream of the i-th dispatch reads its next chunk
ReadsChunk(i) ==
    /\ dispatches[i].pc = "streaming"
    /\ Len(dispatches[i].inputs) < Len(ConcurrentStream)
    /\ dispatches' = [dispatches EXCEPT
                         ![i] = afterAnswer(dispatches, i,
                                    ChunkRead(ConcurrentStream[Len(dispatches[i].inputs) + 1]),
                                    maxAttempts)]
    /\ UNCHANGED <<confVars, orchVars, normVars, adptVars, transVars, usageVars, healthVars>>

\* the stream of the i-th dispatch is exhausted
EndsStream(i) ==
    /\ dispatches[i].pc = "streaming"
    /\ Len(dispatches[i].inputs) = Len(ConcurrentStream)
    /\ dispatches' = [dispatches EXCEPT
                         ![i] = afterAnswer(dispatches, i, StreamEnded, maxAttempts)]
    /\ UNCHANGED <<confVars, orchVars, normVars, adptVars, transVars, usageVars, healthVars>>

InitConcurrent ==
    /\ providers \in ConcurrentConfigs
    /\ adapters = FullAdapters(providers)
    /\ maxAttempts \in 1..MaxAttemptsBound
    /\ ConfiguredDirectly
    /\ OrchIdle
    /\ NormIdle
    /\ AdapterIdle
    /\ TransportIdle
    /\ UsageIdle
    /\ HealthIdle
    /\ dispatches = <<>>

NextConcurrent ==
    \/ \E req \in ConcurrentRequests : Begins(req)
    \/ \E i \in DOMAIN dispatches : Resolves(i)
    \/ \E i \in DOMAIN dispatches, c \in {"TEMPORARY", "PERMANENT"} : Rejects(i, c)
    \/ \E i \in DOMAIN dispatches : ReadsChunk(i)
    \/ \E i \in DOMAIN dispatches : EndsStream(i)

SpecConcurrent == InitConcurrent /\ [][NextConcurrent]_vars

(***************************************************************************)
(* Streaming responses (transport.ts, sanitizeStreamEvent)                 *)
(***************************************************************************)
MAX_STREAM_DELTA_CHARS == 4000

\* event.delta?.content ?? event.payload?.message?.content when it is no string
NoContent == [isString |-> FALSE, printable |-> 0, controls |-> 0]

\* a string, by the number of its characters that CONTROL_CHARS_REGEX
\* leaves and the number it matches
Content(printable, controls) ==
    [isString |-> TRUE, printable |-> printable, controls |-> controls]

\* content.length
lengthOf(content) == content.printable + content.controls

\* the contents of the events under analysis: no string, '', plain text,
\* text with a fifth and with a sixth of control characters, control
\* characters only, text of 4,001 characters, and the text of the
\* sanitization test with more control characters
SseContents ==
    {NoContent, Content(0, 0), Content(5, 0), Content(4, 1), Content(5, 1),
     Content(0, 2), Content(4001, 0), Content(4100, 100)}

\* the events the orchestrator's stream hands to the handler: a delta event
\* carries delta.content, a completion event payload.message.content
SseEvents == [type : {"delta", "completion"}, content : SseContents]

\* isPlainTextEvent with the ratio test left out
isPlainTextEventAnyRatio(event) ==
    /\ event.content.isString
    /\ event.content.printable # 0

\* isPlainTextEvent: binaryRatio = (content.length - sanitized.length) /
\* content.length < 0.2
isPlainTextEvent(event) ==
    /\ event.content.isString
    /\ event.content.printable # 0
    /\ 5 * event.content.controls < lengthOf(event.content)

\* sanitizeContent: value.replace(CONTROL_CHARS_REGEX, ''), then
\* slice(0, MAX_STREAM_DELTA_CHARS)
sanitizeContent(content) ==
    Content(IF content.printable > MAX_STREAM_DELTA_CHARS
            THEN MAX_STREAM_DELTA_CHARS ELSE content.printable, 0)

\* sanitizeStreamEvent returns null
Dropped == [type |-> "dropped", content |-> NoContent]

sanitizeStreamEvent(event) ==
    IF ~isPlainTextEvent(event) THEN Dropped
    ELSE [event EXCEPT !.content = sanitizeContent(event.content)]

\* the frame written for an event: data: JSON.stringify(sanitized)
SseFrame(event) ==
    [type |-> event.type, error |-> None, message |-> None,
     retryAfterMs |-> NoHint, content |-> event.content]

\* the errors a stream under analysis throws
SseErrors ==
    {error \in OrchestratorErrors :
        error.retryAfterMs = NoHint /\ error.classification \in {"TEMPORARY", None}}

\* the chatStream requests under analysis
SseRequests ==
    {req \in HttpRequests :
        req.method = "chatStream" /\ req.ip = "127.0.0.1" /\ req.requestId = "req-1"}

\* a permitted chatStream request arrives and the stream is opened
SseReceive(req) == Receive(req, FALSE)

\* one iteration of `for await (const event of stream)`
SseEvent(event) ==
    /\ tpc = "streaming"
    /\ tseen < MaxFrames
    /\ tseen' = tseen + 1
    /\ delivered' = Append(delivered, event)
    /\ LET sanitized == sanitizeStreamEvent(event) IN
       frames' = IF sanitized = Dropped THEN frames
                 ELSE Append(frames, SseFrame(sanitized))
    /\ UNCHANGED <<clients, limiter, buckets, now, handlers, treq, tpc, tstatus,
                   tcode, treply, orchCalls, ended, tfailure, tresult>>
    /\ UNCHANGED <<pc, request, routing, adapterRequest, attempt, lastProviderError,
                   calls, calledAdapter, thrown, response, raised, produced>>
    /\ UNCHANGED <<confVars, normVars, adptVars, usageVars, concVars, healthVars>>

InitSse ==
    /\ providers = <<>>
    /\ adapters = <<>>
    /\ maxAttempts = MaxAttemptsBound
    /\ ConfiguredDirectly
    /\ OrchIdle
    /\ NormIdle
    /\ AdapterIdle
    /\ clients \in Registries
    /\ limiter = NoRateLimit
    /\ buckets \in BucketTables(clients, limiter)
    /\ now = WindowStart
    /\ handlers = <<>>
    /\ treq = NoHttpRequest
    /\ tpc = "idle"
    /\ tstatus = 0
    /\ tcode = None
    /\ treply = NoReply
    /\ orchCalls = <<>>
    /\ tseen = 0
    /\ frames = <<>>
    /\ ended = FALSE
    /\ tfailure = NoFailure
    /\ tresult = NoHint
    /\ UsageIdle
    /\ ConcurrentIdle
    /\ HealthIdle

NextSse ==
    \/ \E req \in SseRequests : SseReceive(req)
    \/ \E event \in SseEvents : SseEvent(event)
    \/ StreamCompletes
    \/ \E error \in SseErrors : StreamThrows(error)

SpecSse == InitSse /\ [][NextSse]_vars

(***************************************************************************)
(* Health (transport.ts GET /health, orchestrator.checkProviderHealth)      *)
(***************************************************************************)
\* ProviderHealthStatus
HealthStatuses == {"ok", "degraded", "failed"}

\* what adapter.checkHealth does: it is not defined, it throws, or it
\* resolves to a status with or without details
NotImplemented == [kind |-> "undefined", status |-> None, details |-> None]

ProbeThrows == [kind |-> "throws", status |-> None, details |-> None]

Reports(status, details) == [kind |-> "reports", status |-> status, details |-> details]

Probes ==
    {NotImplemented, ProbeThrows}
        \cup {Reports(status, details) :
                status \in HealthStatuses, details \in {None, "warning"}}

\* the outcome of checkProviderHealth: it threw, or it returned a health
Threw == [threw |-> TRUE, status |-> None, details |-> None]

Health(status, details) == [threw |-> FALSE, status |-> status, details |-> details]

checkProviderHealth(entries, list, providerKey, probe) ==
    IF ~HasProvider(entries, providerKey) THEN Threw
    ELSE IF findAdapter(list, providerKey, 1) = 0 THEN Threw
    ELSE IF probe.kind = "undefined" THEN Health("ok", "Health probe not implemented")
    ELSE IF probe.kind = "throws" THEN Threw
    ELSE Health(probe.status, probe.details)

\* a HealthComponent (the timestamp, the same for all, is left out)
Component(name, status, details) == [name |-> name, status |-> status, details |-> details]

\* `provider:${providerName}`
ProviderComponent(providerName) == <<"provider", providerName>>

\* the components buildHealthComponents starts with
FixedComponents ==
    <<Component("transport", "ok", None), Component("orchestrator", "ok", None)>>

\* the body of the loop of buildHealthComponents for one provider
componentOf(providerName, outcome) ==
    IF outcome.threw
    THEN Component(ProviderComponent(providerName), "failed", "Health probe failed")
    ELSE Component(ProviderComponent(providerName), outcome.status, outcome.details)

\* deriveOverallStatus that looks for a degraded component first
deriveOverallStatusDegradedFirst(list) ==
    IF \E i \in 1..Len(list) : list[i].status = "degraded" THEN "degraded"
    ELSE IF \E i \in 1..Len(list) : list[i].status = "failed" THEN "failed"
    ELSE "ok"

deriveOverallStatus(list) ==
    IF \E i \in 1..Len(list) : list[i].status = "failed" THEN "failed"
    ELSE IF \E i \in 1..Len(list) : list[i].status = "degraded" THEN "degraded"
    ELSE "ok"

\* the configurations under analysis: no provider, one, two
HealthConfigs ==
    {<<>>,
     <<ProviderEntry("alpha", Capabilities, {}, NoScores)>>,
     <<ProviderEntry("alpha", Capabilities, {}, NoScores),
       ProviderEntry("beta", {"chat"}, {}, NoScores)>>}

\* the adapters registered: one for every provider, or none for the first
HealthAdapters(entries) ==
    {FullAdapters(entries)}
        \cup (IF entries = <<>> THEN {} ELSE {Tail(FullAdapters(entries))})

HealthRequests ==
    {req \in HttpRequests :
        req.method = "getHealth" /\ req.ip = "127.0.0.1" /\ req.requestId = "req-1"}

\* GET /health arrives and passes, or fails, the hooks and the method check
HealthReceive(req) == Receive(req, FALSE)

\* one iteration of the loop of buildHealthComponents: the probe of the next
\* provider of Object.keys(config.providers)
HealthProbe(probe) ==
    /\ tpc = "awaitOrch"
    /\ treq.method = "getHealth"
    /\ Len(probed) < Len(providers)
    /\ LET providerName == providers[Len(probed) + 1].key
           outcome == checkProviderHealth(providers, adapters, providerName, probe)
           collected == IF components = <<>> THEN FixedComponents ELSE components
       IN /\ probed' = Append(probed, outcome)
          /\ components' = Append(collected, componentOf(providerName, outcome))
    /\ UNCHANGED health
    /\ UNCHANGED <<confVars, orchVars, normVars, adptVars, transVars, usageVars, concVars>>

\* the loop is over: the handler returns status, timestamp and components
HealthReplies ==
    /\ tpc = "awaitOrch"
    /\ treq.method = "getHealth"
    /\ Len(probed) = Len(providers)
    /\ LET collected == IF components = <<>> THEN FixedComponents ELSE components IN
       /\ components' = collected
       /\ health' = [status |-> deriveOverallStatus(collected), components |-> collected]
    /\ tstatus' = 200 /\ tcode' = None /\ treply' = NoReply
    /\ tpc' = "done"
    /\ UNCHANGED probed
    /\ UNCHANGED <<clients, limiter, buckets, now, handlers, treq, orchCalls, tseen,
                   frames, ended, tfailure, tresult>>
    /\ UNCHANGED <<confVars, orchVars, normVars, adptVars, usageVars, concVars>>

InitHealth ==
    /\ providers \in HealthConfigs
    /\ adapters \in HealthAdapters(providers)
    /\ maxAttempts = MaxAttemptsBound
    /\ ConfiguredDirectly
    /\ OrchIdle
    /\ NormIdle
    /\ AdapterIdle
    /\ clients \in Registries
    /\ limiter = NoRateLimit
    /\ buckets \in BucketTables(clients, limiter)
    /\ now = WindowStart
    /\ handlers = <<>>
    /\ treq = NoHttpRequest
    /\ tpc = "idle"
    /\ tstatus = 0
    /\ tcode = None
    /\ treply = NoReply
    /\ orchCalls = <<>>
    /\ tseen = 0
    /\ frames = <<>>
    /\ ended = FALSE
    /\ tfailure = NoFailure
    /\ tresult = NoHint
    /\ UsageIdle
    /\ ConcurrentIdle
    /\ HealthIdle

NextHealth ==
    \/ \E req \in HealthRequests : HealthReceive(req)
    \/ \E probe \in Probes : HealthProbe(probe)
    \/ HealthReplies

SpecHealth == InitHealth /\ [][NextHealth]_vars

(***************************************************************************)
(* Model discovery (orchestrator.listModels)                                *)
(***************************************************************************)
\* the outcome of resolveProviderKey: a provider key, or the Error thrown
KeyOk(providerKey) == [ok |-> TRUE, providerKey |-> providerKey, error |-> None]

KeyError(message) == [ok |-> FALSE, providerKey |-> None, error |-> message]

\* resolveProviderKey that always takes the first configured provider
resolveProviderKeyFirst(req, entries) ==
    IF entries = <<>> THEN KeyError("No providers configured")
    ELSE KeyOk(entries[1].key)

\* request.provider ?? Object.keys(providers)[0], checked against the
\* configuration
resolveProviderKey(req, entries) ==
    LET providerKey == IF req.provider # None THEN req.provider
                       ELSE IF entries = <<>> THEN None
                       ELSE entries[1].key
    IN IF providerKey = None THEN KeyError("No providers configured")
       ELSE IF ~HasProvider(entries, providerKey) THEN KeyError("Unknown provider")
       ELSE KeyOk(providerKey)

\* a ModelDescriptor as an adapter of this repository returns it
Descriptor(id, ready) == [id |-> id, ready |-> ready]

\* a ModelDescriptor after enrichModelMetadata; defaults is empty when the
\* descriptor has no defaults field
Enriched(model, defaults, scores) ==
    [id |-> model.id, ready |-> model.ready, defaults |-> defaults, scores |-> scores]

\* defaultsByModel: the capabilities whose configured default is the model,
\* for every model that is the default of one
defaultsByModel(providerConfig) ==
    [id \in {providerConfig.defaults[c] : c \in Capabilities} \ {NoModel} |->
        {c \in Capabilities : providerConfig.defaults[c] = id}]

enrichModelMetadata(models, providerConfig) ==
    [k \in 1..Len(models) |->
        Enriched(models[k],
                 IF models[k].id \in DOMAIN defaultsByModel(providerConfig)
                 THEN defaultsByModel(providerConfig)[models[k].id] ELSE {},
                 providerConfig.scores)]

\* the lists adapter.listModels resolves to
ModelLists ==
    {<<>>,
     <<Descriptor(CapModelOf("alpha", "chat"), TRUE)>>,
     <<Descriptor(CapModelOf("alpha", "chat"), TRUE), Descriptor(CallerModel, FALSE)>>,
     <<Descriptor(CallerModel, TRUE), Descriptor(CapModelOf("alpha", "embed"), TRUE),
       Descriptor(CapModelOf("beta", "embed"), FALSE)>>}

\* the configurations under analysis: none; alpha, whose chat default is
\* also its chatStream default, and beta with scores
ModelConfigs ==
    {<<>>,
     <<[ProviderEntry("alpha", Capabilities, {"chat", "embed"}, NoScores)
           EXCEPT !.defaults["chatStream"] = CapModelOf("alpha", "chat")],
       ProviderEntry("beta", {"chat", "embed"}, {"embed"},
                     [c \in Capabilities |-> IF c = "embed" THEN <<45>> ELSE <<60>>])>>,
     <<ProviderEntry("beta", {"chat"}, {}, NoScores)>>}

ModelRequests ==
    {[op |-> "models", provider |-> p, model |-> NoModel] :
        p \in {None, UnknownKey} \cup KeySet}

\* the result of listModels
Listing(providerKey, models) == [provider |-> providerKey, models |-> models]

\* listModels up to `await adapter.listModels()`; discovers: the adapter
\* defines listModels
ListModels(req, discovers) ==
    /\ pc = "idle"
    /\ request' = req
    /\ LET key == resolveProviderKey(req, providers) IN
       IF ~key.ok
       THEN /\ raised' = LocalError(key.error) /\ pc' = "threw"
            /\ UNCHANGED <<calls, calledAdapter>>
       ELSE IF findAdapter(adapters, key.providerKey, 1) = 0
       THEN /\ raised' = LocalError("Adapter not registered") /\ pc' = "threw"
            /\ UNCHANGED <<calls, calledAdapter>>
       ELSE IF ~discovers
       THEN /\ raised' = LocalError("Adapter does not support model discovery")
            /\ pc' = "threw"
            /\ UNCHANGED <<calls, calledAdapter>>
       ELSE /\ calls' = calls + 1
            /\ calledAdapter' = key.providerKey
            /\ pc' = "awaitAdapter"
            /\ UNCHANGED raised
    /\ UNCHANGED <<routing, adapterRequest, attempt, lastProviderError, thrown, response,
                   produced, delivered>>
    /\ UNCHANGED <<confVars, normVars, adptVars, transVars, usageVars, concVars, healthVars>>

\* adapter.listModels resolves: the models are enriched and returned
AdapterLists(models) ==
    /\ pc = "awaitAdapter"
    /\ request.op = "models"
    /\ produced' = models
    /\ response' = Listing(calledAdapter,
                           enrichModelMetadata(models,
                                               ProviderConfigOf(providers, calledAdapter)))
    /\ pc' = "done"
    /\ UNCHANGED <<request, routing, adapterRequest, attempt, lastProviderError, calls,
                   calledAdapter, thrown, raised, delivered>>
    /\ UNCHANGED <<confVars, normVars, adptVars, transVars, usageVars, concVars, healthVars>>

\* adapter.listModels rejects: listModels rejects with the same error
AdapterListFails(error) ==
    /\ pc = "awaitAdapter"
    /\ request.op = "models"
    /\ thrown' = Append(thrown, error)
    /\ raised' = error
    /\ pc' = "threw"
    /\ UNCHANGED <<request, routing, adapterRequest, attempt, lastProviderError, calls,
                   calledAdapter, response, produced, delivered>>
    /\ UNCHANGED <<confVars, normVars, adptVars, transVars, usageVars, concVars, healthVars>>

\* orchestrator.checkProviderHealth(providerKey) called on its own
ChecksHealth(providerKey, probe) ==
    /\ pc = "idle"
    /\ Len(probed) < Len(ProviderKeys)
    /\ probed' = Append(probed, checkProviderHealth(providers, adapters, providerKey, probe))
    /\ UNCHANGED <<components, health>>
    /\ UNCHANGED <<confVars, orchVars, normVars, adptVars, transVars, usageVars, concVars>>

InitModels ==
    /\ providers \in ModelConfigs
    /\ adapters \in HealthAdapters(providers)
    /\ maxAttempts = MaxAttemptsBound
    /\ ConfiguredDirectly
    /\ OrchIdle
    /\ NormIdle
    /\ AdapterIdle
    /\ TransportIdle
    /\ UsageIdle
    /\ ConcurrentIdle
    /\ HealthIdle

NextModels ==
    \/ \E req \in ModelRequests, discovers \in BOOLEAN : ListModels(req, discovers)
    \/ \E models \in ModelLists : AdapterLists(models)
    \/ \E c \in {"TEMPORARY", "CONFIG", None} : AdapterListFails(AdapterThrows(c, 1))
    \/ \E providerKey \in KeySet \cup {UnknownKey}, probe \in Probes :
          ChecksHealth(providerKey, probe)

SpecModels == InitModels /\ [][NextModels]_vars

(***************************************************************************)
(* Retry configuration (config.ts loadConfig, orchestrator.ts               *)
(* resolveMaxAttempts)                                                      *)
(***************************************************************************)
\* the values of LLM_CALLER_RETRY_ATTEMPTS: unset, "abc", "-1", "0", "1",
\* "2.5", "3" and "3abc"
RetryEnvs ==
    {Missing, JsonText, Numeral(-2), Numeral(0), Numeral(2), Numeral(5), Numeral(6),
     Prefixed(6)}

\* Math.floor / truncation toward zero of a number given in halves
floorOf(halves) == 2 * (halves \div 2)

truncOf(halves) == IF halves >= 0 THEN 2 * (halves \div 2) ELSE -(2 * ((-halves) \div 2))

\* Number.parseInt(process.env.LLM_CALLER_RETRY_ATTEMPTS ?? '', 10)
parseInt(value) ==
    IF value.type \in {"numeral", "prefixed"} THEN JsonNumber(truncOf(value.halves))
    ELSE NotANumber

\* loadConfig: retry: Number.isFinite(retryAttempts) ? { maxAttempts:
\* retryAttempts } : undefined, read as config.retry?.maxAttempts
loadConfig(value) ==
    IF parseInt(value).type = "number" THEN parseInt(value) ELSE Missing

\* retry.maxAttempts of a configuration built by the caller: absent, NaN,
\* Infinity, "3", -1, 0, 0.5, 1, 2.5, 3
DirectRetries ==
    {Missing, NotANumber, Infinite, Numeral(6), JsonNumber(-2), JsonNumber(0),
     JsonNumber(1), JsonNumber(2), JsonNumber(5), JsonNumber(6)}

\* resolveMaxAttempts without the test configured >= 1
resolveMaxAttemptsOfAnyNumber(configured) ==
    IF configured.type = "number" THEN floorOf(configured.halves) \div 2 ELSE 2

\* typeof configured === 'number' && Number.isFinite(configured) &&
\* configured >= 1 ? Math.floor(configured) : 2
resolveMaxAttempts(configured) ==
    IF configured.type = "number" /\ configured.halves >= 2
    THEN floorOf(configured.halves) \div 2
    ELSE 2

\* the requests and the configuration of the retry specification
RetryRequests == {req \in Requests : req.op = "chat" /\ req.model = NoModel}

RetryConfigs == {<<ProviderEntry("alpha", Capabilities, {}, NoScores)>>}

\* loadConfig() read the environment, or the caller built the configuration;
\* createOrchestrator resolved the attempt count
InitRetry ==
    /\ providers \in RetryConfigs
    /\ adapters = FullAdapters(providers)
    /\ retryAttempts \in RetryEnvs
    /\ retry \in IF retryAttempts = Missing THEN DirectRetries
                 ELSE {loadConfig(retryAttempts)}
    /\ maxAttempts = resolveMaxAttempts(retry)
    /\ OrchIdle
    /\ NormIdle
    /\ AdapterIdle
    /\ TransportIdle
    /\ UsageIdle
    /\ ConcurrentIdle
    /\ HealthIdle

NextRetry ==
    \/ \E req \in RetryRequests : Dispatch(req)
    \/ \E result \in AdapterPayloads : ChatSucceeds(result)
    \/ \E c \in Classifications \cup {None} : ChatFails(c)

SpecRetry == InitRetry /\ [][NextRetry]_vars

(***************************************************************************)
(* Retry exhaustion seen through POST /mcp/chat                             *)
(***************************************************************************)
\* a ProviderError constructed with { retryAfterMs: hint }
Hinted(error, hint) ==
    [kind |-> error.kind, classification |-> error.classification,
     origin |-> error.origin, id |-> error.id, cause |-> error.cause,
     retryAfterMs |-> hint]

\* error.retryAfterMs: undefined for an error constructed without the option
retryAfterMsOf(error) ==
    IF "retryAfterMs" \in DOMAIN error THEN error.retryAfterMs ELSE NoHint

\* the error of the orchestrator as the chat handler catches it
caught(error) ==
    [kind |-> error.kind, classification |-> error.classification,
     retryAfterMs |-> retryAfterMsOf(error),
     message |-> error.origin,
     cause |-> IF error.cause = 0 THEN None ELSE "lastProviderError"]

\* the hints the failed attempts carry: none, 1500.5 and 60000 milliseconds
AttemptHints == {NoHint, Millis(3001), Millis(120000)}

ExhaustionRequests ==
    {req \in HttpRequests :
        req.method = "chat" /\ req.ip = "127.0.0.1" /\ req.requestId = "req-1"}

\* POST /mcp/chat arrives and passes, or fails, the hooks
ChatReceive(req) == Receive(req, FALSE)

\* the handler calls orchestrator.dispatchChat
ChatDispatches(req) ==
    /\ tpc = "awaitOrch"
    /\ Dispatch(req)

\* an attempt fails with an error that carries a retry hint
AttemptFails(classification, hint) ==
    /\ tpc = "awaitOrch"
    /\ ChatRejects(IF classification = None THEN AdapterThrows(None, calls)
                   ELSE Hinted(AdapterThrows(classification, calls), hint))

\* an attempt succeeds
AttemptSucceeds(result) ==
    /\ tpc = "awaitOrch"
    /\ ChatSucceeds(result)

\* dispatchChat rejected: the catch block of the handler answers
ChatAnswersError ==
    /\ pc = "threw"
    /\ OrchRejects(caught(raised))

\* dispatchChat resolved: the handler answers 200
ChatAnswers ==
    /\ pc = "returned"
    /\ OrchResolves(TRUE, NoHint)

InitExhaustion ==
    /\ providers \in RetryConfigs
    /\ adapters = FullAdapters(providers)
    /\ maxAttempts \in 1..MaxAttemptsBound
    /\ ConfiguredDirectly
    /\ OrchIdle
    /\ NormIdle
    /\ AdapterIdle
    /\ clients \in Registries
    /\ limiter = NoRateLimit
    /\ buckets \in BucketTables(clients, limiter)
    /\ now = WindowStart
    /\ handlers = <<>>
    /\ treq = NoHttpRequest
    /\ tpc = "idle"
    /\ tstatus = 0
    /\ tcode = None
    /\ treply = NoReply
    /\ orchCalls = <<>>
    /\ tseen = 0
    /\ frames = <<>>
    /\ ended = FALSE
    /\ tfailure = NoFailure
    /\ tresult = NoHint
    /\ UsageIdle
    /\ ConcurrentIdle
    /\ HealthIdle

NextExhaustion ==
    \/ \E req \in ExhaustionRequests : ChatReceive(req)
    \/ \E req \in RetryRequests : ChatDispatches(req)
    \/ \E c \in Classifications \cup {None}, hint \in AttemptHints : AttemptFails(c, hint)
    \/ \E result \in AdapterPayloads : AttemptSucceeds(result)
    \/ ChatAnswersError
    \/ ChatAnswers

SpecExhaustion == InitExhaustion /\ [][NextExhaustion]_vars

(***************************************************************************)
(* Properties                                                              *)
(***************************************************************************)
ClassesOf(errors) == [i \in 1..Len(errors) |-> errors[i].classification]

AllRetryable(errors) ==
    \A i \in 1..Len(errors) :
        errors[i].kind = "ProviderError"
        /\ errors[i].classification \in {"TEMPORARY", "RATE_LIMIT"}

\* C1: a chat dispatch never makes more adapter calls than the configured
\* maximum N; when it raises after failures that were all retryable
\* (TEMPORARY and RATE_LIMIT in any mix), it has made exactly N calls, all N
\* failed, and the raised error is a ProviderError whose classification is
\* that of the N-th failure.
C1_RetryMonotonicity ==
    request.op = "chat" =>
        /\ calls <= maxAttempts
        /\ (pc = "threw" /\ Len(thrown) > 0 /\ AllRetryable(thrown)) =>
              /\ calls = maxAttempts
              /\ Len(thrown) = maxAttempts
              /\ raised.kind = "ProviderError"
              /\ raised.classification = thrown[maxAttempts].classification

C1_Witness ==
    /\ request.op = "chat" /\ pc = "threw"
    /\ maxAttempts = 2
    /\ ClassesOf(thrown) = <<"TEMPORARY", "RATE_LIMIT">>
    /\ raised.classification = "RATE_LIMIT"

\* C2: once adapter.chat has failed with a ProviderError classified
\* PERMANENT, AUTH or CONFIG, the dispatch has thrown that very error, and no
\* adapter call follows the failing one (one call when it is the first failure).
C2_NoRetryOnNonRetryable ==
    (/\ request.op = "chat"
     /\ Len(thrown) > 0
     /\ thrown[Len(thrown)].kind = "ProviderError"
     /\ thrown[Len(thrown)].classification \in {"PERMANENT", "AUTH", "CONFIG"}) =>
        /\ pc = "threw"
        /\ raised = thrown[Len(thrown)]
        /\ calls = Len(thrown)
        /\ (Len(thrown) = 1 => calls = 1)

C2_Witness ==
    /\ request.op = "chat" /\ pc = "threw"
    /\ maxAttempts = 2
    /\ ClassesOf(thrown) = <<"PERMANENT">>
    /\ calls = 1
    /\ raised.classification = "PERMANENT"

\* C3: when adapter.embed has failed with a retryable ProviderError and fewer
\* failures than the configured maximum have occurred, adapter.embed has been
\* called again (the dispatch has not thrown).
C3_EmbedRetries ==
    (/\ request.op = "embed"
     /\ Len(thrown) > 0
     /\ AllRetryable(thrown)
     /\ Len(thrown) < maxAttempts) =>
        /\ pc # "threw"
        /\ calls = Len(thrown) + 1

\* The state of a streaming dispatch: adapter.chatStream has been called at
\* most once, and once when the dispatch reached the adapter; the consumer has
\* received exactly the events the adapter's stream yielded, in order; a
\* failure of the stream has been thrown to the consumer as it is, once.
C4_StreamState ==
    request.op = "chatStream" =>
        /\ calls <= 1
        /\ (calledAdapter # None => calls = 1)
        /\ Len(delivered) = Len(produced)
        /\ \A i \in 1..Len(produced) :
              /\ delivered[i].type = produced[i].type
              /\ delivered[i].content = produced[i].content
        /\ Len(thrown) <= 1
        /\ (Len(thrown) = 1 => pc = "threw" /\ raised = thrown[1])

\* C4: a streaming dispatch calls adapter.chatStream once whatever the outcome
\* of the stream; when the stream fails after k events the consumer has
\* received those k events in order and then the error, and after the error
\* no event is delivered and no further call is made.
C4_StreamNotRetried ==
    /\ []C4_StreamState
    /\ [][(request.op = "chatStream" /\ pc = "threw") =>
            (delivered' = delivered /\ calls' = calls /\ pc' = pc)]_vars

C4_Witness ==
    /\ request.op = "chatStream" /\ pc = "threw"
    /\ calls = 1
    /\ ClassesOf(thrown) = <<"TEMPORARY">>
    /\ Len(delivered) = 2
    /\ delivered[1].content = "Hel" /\ delivered[2].content = "lo"

Configured(key) == \E i \in 1..Len(providers) : providers[i].key = key

\* C5: a dispatch that names a configured provider is routed to exactly that
\* provider with strategy caller-override, and only that provider's adapter is
\* ever called; a dispatch that names a provider that is not configured throws
\* an error that is not a ProviderError, and no adapter is called.
C5_OverrideSupremacy ==
    (pc # "idle" /\ request.provider # None) =>
        IF Configured(request.provider)
        THEN /\ routing.ok
             /\ routing.providerKey = request.provider
             /\ routing.strategy = "caller-override"
             /\ calledAdapter \in {None, request.provider}
        ELSE /\ pc = "threw"
             /\ raised.kind = "Error"
             /\ calls = 0
             /\ calledAdapter = None

C5_Witness ==
    /\ pc = "returned" /\ request.op = "chat" /\ request.provider = "beta"
    /\ Len(providers) = 2
    /\ providers[1].capabilities = Capabilities
    /\ providers[1].scores["chat"] = <<95>>
    /\ providers[1].defaults["chat"] # NoModel
    /\ providers[2].scores["chat"] = <<>>
    /\ providers[2].defaults["chat"] = NoModel
    /\ calledAdapter = "beta"
    /\ routing.strategy = "caller-override"

\* the score of the i-th configured provider for the requested capability
RequestScore(i) ==
    (IF providers[i].scores[request.op] = <<>> THEN 0 ELSE providers[i].scores[request.op][1])
    + (IF providers[i].defaults[request.op] # NoModel THEN 50 ELSE 0)

Declaring == {i \in 1..Len(providers) : request.op \in providers[i].capabilities}

\* C6: without a provider override, when some provider declares the requested
\* capability, routing selects the declaring provider of maximal score
\* (scores[capability], default 0, plus 50 with a capability default), the
\* earliest of them on a tie; the strategy is capability-default if the winner
\* has defaults[capability], else fallback; the model is defaults[capability],
\* else defaultModel.
C6_ScoredSelection ==
    (pc # "idle" /\ request.provider = None /\ Declaring # {}) =>
        /\ routing.ok
        /\ \E w \in Declaring :
              /\ routing.providerKey = providers[w].key
              /\ \A j \in Declaring :
                    \/ RequestScore(j) < RequestScore(w)
                    \/ (RequestScore(j) = RequestScore(w) /\ w <= j)
              /\ routing.strategy =
                    (IF providers[w].defaults[request.op] # NoModel
                     THEN "capability-default" ELSE "fallback")
              /\ routing.model =
                    (IF providers[w].defaults[request.op] # NoModel
                     THEN providers[w].defaults[request.op]
                     ELSE providers[w].defaultModel)

C6_Witness ==
    /\ pc # "idle" /\ request.provider = None /\ request.op = "chat"
    /\ Declaring = {1, 2}
    /\ providers[1].scores["chat"] = <<60>> /\ providers[1].defaults["chat"] = NoModel
    /\ providers[2].scores["chat"] = <<10>> /\ providers[2].defaults["chat"] # NoModel
    /\ routing.providerKey = providers[1].key
    /\ routing.strategy = "fallback"

\* The scenario of C7: providers a and b both declare chat; a has no
\* defaults.chat and scores.chat = 95, b has defaults.chat and scores.chat = 10;
\* a chat request without provider override has been dispatched.
C7_Scenario(a, b) ==
    /\ Len(providers) = 2 /\ a # b
    /\ pc # "idle" /\ request.op = "chat" /\ request.provider = None
    /\ "chat" \in providers[a].capabilities /\ "chat" \in providers[b].capabilities
    /\ providers[a].defaults["chat"] = NoModel /\ providers[a].scores["chat"] = <<95>>
    /\ providers[b].defaults["chat"] # NoModel /\ providers[b].scores["chat"] = <<10>>

\* C7 as stated: in the scenario the request is routed to b with strategy
\* capability-default.
C7_DefaultWins ==
    \A a, b \in 1..Len(providers) :
        C7_Scenario(a, b) =>
            /\ routing.providerKey = providers[b].key
            /\ routing.strategy = "capability-default"

\* C7, amended: in the scenario the request is routed to a (95 against
\* 10 + 50) with strategy fallback and a's defaultModel.
C7_ScoreWins ==
    \A a, b \in 1..Len(providers) :
        C7_Scenario(a, b) =>
            /\ routing.ok
            /\ routing.providerKey = providers[a].key
            /\ routing.strategy = "fallback"
            /\ routing.model = providers[a].defaultModel

C7_Witness ==
    /\ C7_Scenario(2, 1)
    /\ pc = "returned"
    /\ calledAdapter = providers[2].key
    /\ response.strategy = "fallback"

\* the adapter registered for a provider key implements the requested
\* operation and advertises its capability
AdapterReady(key, op) ==
    \E i \in 1..Len(adapters) :
        /\ adapters[i].name = key
        /\ \A j \in 1..(i - 1) : adapters[j].name # key
        /\ op \in adapters[i].supports
        /\ "chat" \in adapters[i].supports
        /\ adapters[i].hasChatStream /\ adapters[i].hasEmbed

\* C8: when no configured provider declares the requested capability and the
\* request names no provider, the dispatch selects the first configured
\* provider with its defaultModel and strategy fallback and calls that
\* provider's adapter instead of raising.
C8_FallbackDispatches ==
    (/\ pc # "idle" /\ request.provider = None
     /\ Len(providers) > 0 /\ Declaring = {}
     /\ AdapterReady(providers[1].key, request.op)) =>
        /\ routing.ok
        /\ routing.providerKey = providers[1].key
        /\ routing.model = providers[1].defaultModel
        /\ routing.strategy = "fallback"
        /\ calls >= 1
        /\ calledAdapter = providers[1].key

\* C9: when the adapter registered for the chosen provider does not advertise
\* the requested capability, or the provider's configuration does not declare
\* it, the dispatch has thrown a ProviderError classified CONFIG without
\* calling the adapter.
C9_MismatchIsConfig ==
    \A i \in 1..Len(adapters), k \in 1..Len(providers) :
        (/\ pc # "idle" /\ routing.ok
         /\ providers[k].key = routing.providerKey
         /\ adapters[i].name = routing.providerKey
         /\ \A j \in 1..(i - 1) : adapters[j].name # routing.providerKey
         /\ \/ request.op \notin adapters[i].supports
            \/ request.op \notin providers[k].capabilities) =>
            /\ pc = "threw"
            /\ raised.kind = "ProviderError"
            /\ raised.classification = "CONFIG"
            /\ calls = 0

\* the content fragments of the deltas of the first n chunks, in arrival order
RECURSIVE ContentOfChoices(_)
ContentOfChoices(choices) ==
    IF choices = <<>> THEN <<>>
    ELSE (IF Head(choices).delta.present /\ Head(choices).delta.hasContent
          THEN Head(choices).delta.content ELSE <<>>)
         \o ContentOfChoices(Tail(choices))

RECURSIVE FragmentsOf(_, _)
FragmentsOf(source, n) ==
    IF n = 0 THEN <<>>
    ELSE LET data == extractDataPayload(source[n]) IN
         FragmentsOf(source, n - 1)
         \o (IF data.kind = "object" THEN ContentOfChoices(data.choices) ELSE <<>>)

RECURSIVE DeltaContentOf(_)
DeltaContentOf(events) ==
    IF events = <<>> THEN <<>>
    ELSE (IF Head(events).type = "delta" THEN Head(events).content ELSE <<>>)
         \o DeltaContentOf(Tail(events))

\* C10: the delta events carry the content fragments in arrival order, at most
\* one completion event is emitted, and no event follows a completion event.
C10_CompletionLast ==
    /\ DeltaContentOf(emitted) = FragmentsOf(blocks, pos)
    /\ \A i \in 1..Len(emitted) :
          emitted[i].type = "completion" => i = Len(emitted)

\* the choice carries a delta with a non-empty role or non-empty content
SetsRoleOrContent(choice) ==
    /\ choice.delta.present
    /\ \/ choice.delta.hasRole /\ choice.delta.role # ""
       \/ choice.delta.hasContent /\ choice.delta.content # <<>>

IsDeltaEvent(event) == event.type = "delta"

\* the roles set by the deltas of the first n chunks, in arrival order
RECURSIVE RolesOfChoices(_)
RolesOfChoices(choices) ==
    IF choices = <<>> THEN <<>>
    ELSE (IF Head(choices).delta.present /\ Head(choices).delta.hasRole
          THEN <<Head(choices).delta.role>> ELSE <<>>)
         \o RolesOfChoices(Tail(choices))

RECURSIVE RolesOf(_, _)
RolesOf(source, n) ==
    IF n = 0 THEN <<>>
    ELSE LET data == extractDataPayload(source[n]) IN
         RolesOf(source, n - 1)
         \o (IF data.kind = "object" THEN RolesOfChoices(data.choices) ELSE <<>>)

LastRoleOrAssistant(roles) ==
    IF roles = <<>> THEN "assistant" ELSE roles[Len(roles)]

\* C11: while a chunk is processed, the delta events emitted for it are, in
\* order, the deltas of the chunk that set a role or a content, each carrying
\* the fragment of its own delta (not the running total), so a delta that sets
\* neither produces no event; every completion event carries the in-order
\* concatenation of the content fragments of the deltas before it, and a
\* completion that closes a chunk carries the last role observed, or
\* assistant when none was.
C11_FragmentsAndCompletion ==
    [][(npc = "running" /\ pos' = pos + 1
        /\ extractDataPayload(blocks[pos + 1]).kind = "object") =>
        LET data == extractDataPayload(blocks[pos + 1])
            new == SubSeq(emitted', Len(emitted) + 1, Len(emitted'))
            deltas == SelectSeq(new, IsDeltaEvent)
            setting == SelectSeq(data.choices, SetsRoleOrContent)
        IN /\ SubSeq(emitted', 1, Len(emitted)) = emitted
           /\ Len(deltas) = Len(setting)
           /\ \A k \in 1..Len(deltas) :
                 /\ deltas[k].hasContent = setting[k].delta.hasContent
                 /\ deltas[k].content = setting[k].delta.content
                 /\ deltas[k].hasRole = setting[k].delta.hasRole
                 /\ deltas[k].role = setting[k].delta.role
           /\ \A i \in 1..Len(emitted') :
                 emitted'[i].type = "completion" =>
                    emitted'[i].content = DeltaContentOf(SubSeq(emitted', 1, i - 1))
           /\ (data.choices # <<>> /\ isTerminal(data.choices[Len(data.choices)])) =>
                 /\ new # <<>>
                 /\ new[Len(new)].type = "completion"
                 /\ new[Len(new)].content = FragmentsOf(blocks, pos + 1)
                 /\ new[Len(new)].role = LastRoleOrAssistant(RolesOf(blocks, pos + 1))
      ]_vars

\* the stream "Hel", "lo", stop has produced two deltas and the completion
\* "Hello" with the role of the first delta, after a delta that set nothing
C11_Witness ==
    /\ Len(emitted) = 3
    /\ emitted[1].type = "delta" /\ emitted[1].content = <<"Hel">>
    /\ emitted[2].type = "delta" /\ emitted[2].content = <<"lo">>
    /\ emitted[3].type = "completion"
    /\ emitted[3].content = <<"Hel", "lo">>
    /\ emitted[3].role = "assistant"
    /\ RolesOf(blocks, pos) = <<"assistant">>

\* a chunk among the first n whose joined data payload is the end sentinel
SentinelSeen(source, n) ==
    \E k \in 1..n : extractDataPayload(source[k]) = Sentinel

\* C12: the step that reads a block whose joined data payload equals the end
\* sentinel emits no event and ends the normalizer, and once such a block has
\* been read no further block is read and no further event is emitted.
C12_SentinelStops ==
    [][/\ (npc = "running" /\ pos' = pos + 1
          /\ extractDataPayload(blocks[pos + 1]) = Sentinel) =>
            /\ emitted' = emitted
            /\ npc' = "done"
            /\ nerror' = NoError
       /\ SentinelSeen(blocks, pos) =>
            /\ npc = "done"
            /\ pos' = pos
            /\ emitted' = emitted
            /\ npc' = npc
      ]_vars

\* the normalizer has stopped at a sentinel with events delivered before it
\* and a block carrying a delta left unread after it
C12_Witness ==
    /\ npc = "done"
    /\ pos >= 2 /\ pos < Len(blocks)
    /\ extractDataPayload(blocks[pos]) = Sentinel
    /\ Len(blocks[pos]) = 2
    /\ emitted # <<>>
    /\ extractDataPayload(blocks[pos + 1]).kind = "object"
    /\ FragmentsOf(blocks, pos + 1) # FragmentsOf(blocks, pos)

\* a data payload that is neither the end sentinel nor valid JSON
MalformedPayload(data) ==
    data.kind = "text" /\ data # Sentinel /\ data # JsonNull

\* the step fails the stream as TEMPORARY and emits nothing
FailsAsTemporary ==
    /\ npc' = "failed"
    /\ nerror'.kind = "ProviderError"
    /\ nerror'.classification = "TEMPORARY"
    /\ emitted' = emitted

\* a failed stream reads no further block and emits no further event
StaysFailed ==
    npc = "failed" => (pos' = pos /\ emitted' = emitted /\ npc' = npc)

\* C13 as stated: the step that reads a block whose data payload is not the
\* sentinel and not valid JSON fails the stream with a ProviderError
\* classified TEMPORARY, keeps the events already emitted and emits nothing
\* for that block or any later one.
C13_MalformedFails ==
    [][/\ (npc = "running" /\ pos' = pos + 1
          /\ MalformedPayload(extractDataPayload(blocks[pos + 1]))) => FailsAsTemporary
       /\ StaysFailed
      ]_vars

\* C13 amended: the same for a data payload that is not empty; a block whose
\* data payload is empty is skipped and the stream goes on.
C13_NonEmptyMalformedFails ==
    [][/\ (npc = "running" /\ pos' = pos + 1) =>
            LET data == extractDataPayload(blocks[pos + 1]) IN
            /\ (MalformedPayload(data) /\ data # Blank) => FailsAsTemporary
            /\ data = Blank =>
                  (npc' = "running" /\ nerror' = NoError /\ emitted' = emitted)
       /\ StaysFailed
      ]_vars

\* the stream has failed on a malformed block after events were delivered,
\* with a block carrying a delta left unread
C13_Witness ==
    /\ npc = "failed"
    /\ nerror.kind = "ProviderError" /\ nerror.classification = "TEMPORARY"
    /\ pos >= 2 /\ pos < Len(blocks)
    /\ emitted # <<>>
    /\ MalformedPayload(extractDataPayload(blocks[pos]))
    /\ extractDataPayload(blocks[pos + 1]).kind = "object"
    /\ FragmentsOf(blocks, pos + 1) # FragmentsOf(blocks, pos)

\* the adapter set a providerInfo.name / a providerInfo.model
NameSet(value) == value \notin {Absent, None}

ModelSet(value) == value \notin {AbsentModel, NoModel}

\* the providerInfo of a decorated payload, given the payload the adapter
\* returned and the routing of the dispatch
DecoratedAsRouted(before, after, capability) ==
    /\ after.isObject /\ after.hasInfo
    /\ after.routing = [capability |-> capability, strategy |-> routing.strategy]
    /\ after.name = (IF NameSet(before.name) THEN before.name
                     ELSE routing.providerKey)
    /\ after.model = (IF ModelSet(before.model) THEN before.model
                      ELSE Coalesce(adapterRequest.model, routing.model))
    /\ after.name \notin {Absent, None}
    /\ after.model \notin {AbsentModel, NoModel}

\* C17: on every successful chat or embed dispatch and on every completion
\* event of a stream, providerInfo.routing is the {capability, strategy} of
\* the dispatch, also when the adapter supplied a routing value, and
\* providerInfo.name and providerInfo.model are the adapter's value when it
\* set one and otherwise the routed provider key and model, never absent or
\* undefined.
C17_ProviderInfoDecorated ==
    /\ (pc = "returned" /\ request.op \in {"chat", "embed"}) =>
           DecoratedAsRouted(response.reported, response.payload, request.op)
    /\ \A i \in 1..Len(delivered) :
           delivered[i].type = "completion" =>
              DecoratedAsRouted(produced[i].payload, delivered[i].payload, "chatStream")

\* C18: a chat dispatch that returned reports an attempts value equal to the
\* number of adapter.chat calls it made, between 1 and the configured
\* maximum; every call before the last failed with a retryable error, so the
\* response is that of the first call that succeeded.
C18_AttemptsCountCalls ==
    (pc = "returned" /\ request.op = "chat") =>
        /\ response.attempts = calls
        /\ 1 <= response.attempts /\ response.attempts <= maxAttempts
        /\ Len(thrown) = calls - 1
        /\ AllRetryable(thrown)
        /\ \A i \in 1..Len(thrown) : thrown[i].id = i

\* a chat dispatch returned on its second call after a retryable failure
C18_Witness ==
    /\ pc = "returned" /\ request.op = "chat"
    /\ response.attempts = 2 /\ calls = 2
    /\ Len(thrown) = 1 /\ thrown[1].classification = "RATE_LIMIT"

\* the operation the adapter was asked for is one its class defines
Implemented == aop # None /\ hasMethod(adapterKind, aop)

\* C14: every failure that escapes an adapter operation (chat, chatStream,
\* embed, listModels) is a ProviderError, also when the HTTP client fails
\* while a streaming request is opened or its chunks are iterated.
C14_OnlyProviderErrors ==
    (apc = "threw" /\ Implemented) => aerror.kind = "ProviderError"

\* the classification the shared mapping gives a status outside 2xx
SharedClassification(status) ==
    CASE status \in {401, 403} -> "AUTH"
      [] status = 429 -> "RATE_LIMIT"
      [] status >= 500 -> "TEMPORARY"
      [] status >= 400 /\ status < 500 /\ status \notin {401, 403, 429} -> "PERMANENT"
      [] OTHER -> "TEMPORARY"

\* C15: an adapter operation that received a non-2xx status has raised a
\* ProviderError classified by the shared mapping.
C15_SharedStatusMapping ==
    (Implemented /\ astatus # 0 /\ ~isSuccess(astatus)) =>
        /\ apc = "threw"
        /\ aerror.kind = "ProviderError"
        /\ aerror.classification = SharedClassification(astatus)

\* the operation failed as CONFIG before any HTTP request
FailedAsConfigBeforeHttp ==
    /\ apc = "threw"
    /\ aerror.kind = "ProviderError" /\ aerror.classification = "CONFIG"
    /\ httpRequests = 0

C19_StreamTerminated ==
    (tpc = "done" /\ treq.method = "chatStream" /\ orchCalls # <<>>) =>
        /\ frames # <<>>
        /\ frames[Len(frames)] = DoneFrame
        /\ ended
        /\ tfailure.kind = "ProviderError" =>
              /\ Len(frames) >= 2
              /\ frames[Len(frames) - 1].type = "error"
              /\ frames[Len(frames) - 1].error = tfailure.classification

\* the request satisfies the three conditions of access
Authorized ==
    /\ treq.ip \in {"127.0.0.1", "::1", "::ffff:127.0.0.1"}
    /\ \E i \in 1..Len(clients) :
          /\ clients[i].token = treq.token
          /\ treq.method \in clients[i].allowedMethods

Registered == \E i \in 1..Len(clients) : clients[i].token = treq.token

\* C20: the orchestrator is invoked only for a request from a loopback
\* address whose token is registered and whose client is allowed the method;
\* any other request is answered without an orchestrator call, with 403 for a
\* non-loopback address (whatever its token), 401 for a missing token, 403
\* for an unknown token or a method that is not allowed.
C20_AccessControl ==
    tpc # "idle" =>
        /\ orchCalls # <<>> => Authorized
        /\ ~Authorized =>
              /\ tpc = "done"
              /\ orchCalls = <<>>
              /\ frames = <<>>
              /\ tstatus = (IF treq.ip \notin {"127.0.0.1", "::1", "::ffff:127.0.0.1"}
                            THEN 403
                            ELSE IF treq.token = Absent THEN 401
                            ELSE 403)

\* a request without a token from a non-loopback address got 403, and the
\* registry would have refused its method as well
C20_Witness ==
    /\ tpc = "done"
    /\ treq.ip = "10.0.0.5" /\ treq.token = Absent
    /\ tstatus = 403 /\ tcode = "FORBIDDEN"
    /\ orchCalls = <<>>

\* C22: when the orchestrator raises a ProviderError on a chat or embed
\* request, the status of the response is 429 for RATE_LIMIT, 502 for AUTH,
\* 422 for PERMANENT, 500 for CONFIG and 503 for TEMPORARY, and the error
\* field of the body is the classification.
C22_ProviderErrorStatus ==
    (/\ tpc = "done"
     /\ treq.method \in {"chat", "embed"}
     /\ tfailure.kind = "ProviderError") =>
        /\ tcode = tfailure.classification
        /\ tfailure.classification = "RATE_LIMIT" => tstatus = 429
        /\ tfailure.classification = "AUTH" => tstatus = 502
        /\ tfailure.classification = "PERMANENT" => tstatus = 422
        /\ tfailure.classification = "CONFIG" => tstatus = 500
        /\ tfailure.classification = "TEMPORARY" => tstatus = 503

\* an embed request failed upstream authentication and was answered 502 AUTH
C22_Witness ==
    /\ tpc = "done"
    /\ treq.method = "embed"
    /\ tfailure.kind = "ProviderError" /\ tfailure.classification = "AUTH"
    /\ tstatus = 502 /\ tcode = "AUTH"

\* C24: a request body that fails JSON Schema validation is answered with
\* HTTP 400 and error code BAD_REQUEST, and the orchestrator is not called
\* for it.
C24_InvalidBodyIsBadRequest ==
    (/\ tpc = "done"
     /\ Authorized
     /\ treq.method \in PostMethods
     /\ ~treq.valid) =>
        /\ tstatus = 400
        /\ tcode = "BAD_REQUEST"
        /\ orchCalls = <<>>

\* the handler that runs consumeRateLimit in this step
Consuming(h) == handlers[h].pc = "hooked" /\ handlers'[h].pc # "hooked"

\* the bucket of the token of a handler
BucketOf(h) == buckets[anonymizeToken(handlers[h].token)]

\* the window of the bucket of a handler is still open
WindowOpen(h) ==
    BucketOf(h).stored /\ now - BucketOf(h).windowStart < limiter.intervalMs

\* the requests of a token to some endpoints that reached the orchestrator in
\* the window that started at an instant
AdmittedIn(token, start, methods) ==
    {h \in 1..MaxHandlers :
        /\ handlers[h].called
        /\ handlers[h].token = token
        /\ handlers[h].method \in methods
        /\ handlers[h].windowStart = start}

\* no window of a token has more than maxRequests admitted requests to the
\* endpoints
AtMostMaxRequests(methods) ==
    \A token \in LimitedTokens, start \in 0..MaxTime :
        Cardinality(AdmittedIn(token, start, methods)) <= limiter.maxRequests

\* a request is admitted inside the window it is counted in
AdmittedInsideWindow(h) ==
    (handlers'[h].called /\ handlers'[h].windowStart # NoWindow) =>
        /\ now >= handlers'[h].windowStart
        /\ now < handlers'[h].windowStart + limiter.intervalMs

\* a request beyond maxRequests in an open window gets 429 RATE_LIMIT and
\* does not reach the orchestrator
FurtherRejected(h) ==
    (WindowOpen(h) /\ BucketOf(h).count >= limiter.maxRequests) =>
        /\ handlers'[h].pc = "done"
        /\ handlers'[h].status = 429
        /\ handlers'[h].code = "RATE_LIMIT"
        /\ ~handlers'[h].called

\* a rejected request leaves the bucket as it was
RejectionKeepsBucket(h) ==
    handlers'[h].status = 429 => buckets' = buckets

\* a request is admitted when its token has no open window
AdmittedAfterInterval(h) ==
    ~WindowOpen(h) => (handlers'[h].called /\ handlers'[h].pc = "awaitOrch")

SameClassAndHint(error) ==
    {other \in OrchestratorErrors :
        /\ other.kind = "ProviderError"
        /\ other.classification = error.classification
        /\ other.retryAfterMs = error.retryAfterMs}

\* C23: the error body sent for a ProviderError depends only on its
\* classification, its retry hint and the request id: the response that was
\* sent for the error the orchestrator raised is the response any
\* ProviderError with the same classification and hint but another message
\* or cause produces, on the HTTP path and on the SSE path.
C23_ErrorBodySanitized ==
    (tpc = "done" /\ tfailure.kind = "ProviderError") =>
        \A other \in SameClassAndHint(tfailure) :
            /\ treq.method \in {"chat", "embed"} =>
                  LET sent == sendProviderError(other, treq.requestId) IN
                  /\ tstatus = sent.status
                  /\ tcode = sent.error
                  /\ treply = sent.reply
                  /\ treply.message \notin {tfailure.message, tfailure.cause}
            /\ (treq.method = "chatStream" /\ frames # <<>>) =>
                  /\ frames[Len(frames) - 1] = ErrorFrame(other)
                  /\ frames[Len(frames) - 1].message
                        \notin {tfailure.message, tfailure.cause}

\* a chat request failed with a TEMPORARY ProviderError whose message quotes
\* the upstream body, and the fixed message of the classification was sent
C23_Witness ==
    /\ tpc = "done"
    /\ treq.method = "chat"
    /\ tfailure.kind = "ProviderError" /\ tfailure.classification = "TEMPORARY"
    /\ tfailure.cause = "upstream body"
    /\ tstatus = 503
    /\ treply.message = "Provider encountered a temporary error."
    /\ treply.traceId = treq.requestId

\* a retry hint as it may be sent: a whole number of milliseconds from 1 to
\* 60000
PositiveWithinCap(hint) ==
    /\ hint.type = "number"
    /\ hint.halves % 2 = 0
    /\ hint.halves \div 2 >= 1
    /\ hint.halves \div 2 <= 60000

\* a hint that is missing, not finite, zero or negative
Unusable(hint) == hint.type # "number" \/ hint.halves <= 0

\* the remaining time the rate limiter reported with its rejection
LimiterHint ==
    LET bucket == buckets[anonymizeToken(treq.token)]
        remaining == bucket.windowStart + limiter.intervalMs - now
    IN Millis(2 * (IF remaining > 0 THEN remaining ELSE 0))

\* the request was rejected by the rate limiter of the transport
RejectedByLimiter == tpc = "done" /\ tstatus = 429 /\ orchCalls = <<>>

\* the hint the answer was computed from: of the limiter, of the error the
\* orchestrator raised or of the response it returned
SourceHint ==
    IF RejectedByLimiter THEN LimiterHint
    ELSE IF tfailure.kind = "ProviderError" THEN tfailure.retryAfterMs
    ELSE tresult

\* every retryAfterMs of the body and of the frames is a whole number of
\* milliseconds from 1 to 60000, and the Retry-After header is that value in
\* seconds, rounded up
SentHintsClamped ==
    /\ treply.retryAfterMs # NoHint =>
          /\ PositiveWithinCap(treply.retryAfterMs)
          /\ treply.retryAfter = (treply.retryAfterMs.halves \div 2 + 999) \div 1000
          /\ treply.retryAfter <= 60
    /\ treply.retryAfterMs = NoHint => treply.retryAfter = 0
    /\ \A i \in 1..Len(frames) :
          frames[i].retryAfterMs # NoHint => PositiveWithinCap(frames[i].retryAfterMs)

\* an answer to a chat or embed request that carries status and body
AnsweredWithHint ==
    /\ tpc = "done"
    /\ treq.method \in {"chat", "embed"}
    /\ \/ RejectedByLimiter
       \/ tfailure.kind = "ProviderError"
       \/ tstatus = 200

\* C26: every retryAfterMs value sent (success or error body, SSE error
\* frame, rate-limit rejection) is a positive integer no greater than 60000
\* and the Retry-After header is that value in whole seconds rounded up (at
\* most 60); a hint that is missing, non-finite, zero or negative is omitted
\* instead of being sent.
C26_RetryHintsClamped ==
    /\ SentHintsClamped
    /\ (AnsweredWithHint /\ Unusable(SourceHint)) =>
          (treply.retryAfterMs = NoHint /\ treply.retryAfter = 0)
    /\ (tpc = "done" /\ treq.method = "chatStream" /\ Unusable(SourceHint)) =>
          \A i \in 1..Len(frames) : frames[i].retryAfterMs = NoHint

\* C26 (amended): the same, except that a rate-limit rejection always carries
\* a hint: when the rate limiter reports no positive remaining time, 60000
\* milliseconds and 60 seconds are sent.
C26_RetryHintsClampedOrCapped ==
    /\ SentHintsClamped
    /\ (AnsweredWithHint /\ ~RejectedByLimiter /\ Unusable(SourceHint)) =>
          (treply.retryAfterMs = NoHint /\ treply.retryAfter = 0)
    /\ (AnsweredWithHint /\ RejectedByLimiter /\ Unusable(SourceHint)) =>
          (treply.retryAfterMs = Millis(120000) /\ treply.retryAfter = 60)
    /\ (tpc = "done" /\ treq.method = "chatStream" /\ Unusable(SourceHint)) =>
          \A i \in 1..Len(frames) : frames[i].retryAfterMs = NoHint

\* an embed request failed with a hint of 1500.5 ms: 1501 ms and 2 seconds
\* were sent
C26_Witness ==
    /\ tpc = "done"
    /\ treq.method = "embed"
    /\ tfailure.kind = "ProviderError" /\ tfailure.retryAfterMs = Millis(3001)
    /\ treply.retryAfterMs = Millis(3002)
    /\ treply.retryAfter = 2

\* C25: for chat, chatStream and embed, when the request carries a model, the
\* request handed to the adapter carries that same model, whether or not the
\* request also names a provider; configured defaults replace the model only
\* when the caller supplied none.
C25_CallerModelPinned ==
    (adapterRequest # NoRequest /\ request.model # NoModel) =>
        adapterRequest.model = request.model

\* the integer nearest to a number given in halves (a half rounds up), in
\* halves, and 0 for a number that is not positive
NearestOrZero(halves) ==
    IF halves <= 0 THEN 0
    ELSE 2 * (CHOOSE n \in 0..halves : 2 * n - 1 <= halves /\ halves < 2 * n + 1)

\* the upstream value is a number or a string that is the numeral of one
NumericCount(value) == value.type \in {"number", "numeral"}

\* the field names under which the provider of the normalizer reports the
\* input count and the output count
InputNames ==
    IF normalizer = "normalizeAnthropicUsage" THEN {"input_tokens"}
    ELSE {"prompt_tokens", "input_tokens"}

OutputNames ==
    IF normalizer = "normalizeAnthropicUsage" THEN {"output_tokens"}
    ELSE {"completion_tokens", "output_tokens"}

\* the upstream values carried under the given names
Carried(names) == {rawUsage[n] : n \in names} \ {Missing}

\* the normalized count is a non-negative integer, 0 when nothing was carried
\* and otherwise what one of the carried values becomes: 0 for a negative or
\* non-numeric one, the nearest integer for any other
CountNormalized(field, names) ==
    /\ field.present
    /\ field.halves >= 0
    /\ field.halves % 2 = 0
    /\ IF Carried(names) = {} THEN field.halves = 0
       ELSE \E value \in Carried(names) :
               field.halves = IF NumericCount(value) THEN NearestOrZero(value.halves)
                              ELSE 0

\* C27: the normalized inputTokens and outputTokens of a chat or stream
\* response are non-negative integers: a negative, non-numeric or missing
\* upstream count becomes 0 and any other count is rounded to the nearest
\* integer, under whichever of the provider's field names it was carried.
C27_CountsClamped ==
    (upc = "done" /\ normalizer \in {"normalizeChatUsage", "normalizeAnthropicUsage"})
        => /\ CountNormalized(normalizedUsage.inputTokens, InputNames)
           /\ CountNormalized(normalizedUsage.outputTokens, OutputNames)

\* the count the normalizer of the OpenAI-compatible adapters reads: the
\* first numeric value of the two names, 0 when neither is numeric
FirstNumeric(first, second) ==
    IF NumericCount(first) THEN first.halves
    ELSE IF NumericCount(second) THEN second.halves
    ELSE 0

\* the value the normalizer takes for a number: Number() for the
\* OpenAI-compatible adapters, Number.parseFloat() for the Anthropic adapter
TotalIsNumber ==
    \/ NumericCount(rawUsage.total_tokens)
    \/ normalizer = "normalizeAnthropicUsage" /\ rawUsage.total_tokens.type = "prefixed"

\* the clamped sum of the raw input and output counts
ClampedRawSum ==
    NearestOrZero(FirstNumeric(rawUsage.prompt_tokens, rawUsage.input_tokens)
                  + FirstNumeric(rawUsage.completion_tokens, rawUsage.output_tokens))

\* C28 (as stated): totalTokens is the upstream total unchanged whenever
\* upstream supplied one; without an upstream total it is input + output when
\* both counts were present upstream and the field is omitted when either
\* count was missing.
C28_TotalVerbatimOrDerived ==
    upc = "done" =>
        /\ NumericCount(rawUsage.total_tokens)
              => normalizedUsage.totalTokens = Field(rawUsage.total_tokens.halves)
        /\ (rawUsage.total_tokens = Missing /\ Carried(InputNames) # {}
                /\ Carried(OutputNames) # {})
              => /\ normalizedUsage.totalTokens.present
                 /\ \/ normalizedUsage.totalTokens.halves = ClampedRawSum
                    \/ /\ normalizedUsage.outputTokens.present
                       /\ normalizedUsage.totalTokens.halves =
                             normalizedUsage.inputTokens.halves
                             + normalizedUsage.outputTokens.halves
        /\ (rawUsage.total_tokens = Missing
                /\ (Carried(InputNames) = {} \/ Carried(OutputNames) = {}))
              => ~normalizedUsage.totalTokens.present

\* C28 (amended): a total that upstream supplied as a number is reported
\* clamped to zero and rounded like the counts, whatever the counts are;
\* without one, a chat or stream response of the OpenAI-compatible adapters
\* reports the clamped sum of the raw counts (a missing or non-numeric count
\* taken as 0), an embeddings response reports that sum when an output count
\* was supplied as a number and omits the field otherwise, and the Anthropic
\* adapter omits the field.
C28_TotalClampedOrDerived ==
    upc = "done" =>
        IF TotalIsNumber
        THEN normalizedUsage.totalTokens =
                 Field(NearestOrZero(rawUsage.total_tokens.halves))
        ELSE CASE normalizer = "normalizeChatUsage" ->
                      normalizedUsage.totalTokens = Field(ClampedRawSum)
               [] normalizer = "normalizeEmbeddingUsage" ->
                      IF NumericCount(rawUsage.completion_tokens)
                         \/ NumericCount(rawUsage.output_tokens)
                      THEN normalizedUsage.totalTokens = Field(ClampedRawSum)
                      ELSE normalizedUsage.totalTokens = NoField
               [] OTHER -> normalizedUsage.totalTokens = NoField

\* a chat response with prompt_tokens -1.5, completion_tokens 7 and no total
\* was normalized: the counts are 0 and 7, the total is 6
C28_Witness ==
    /\ upc = "done"
    /\ normalizer = "normalizeChatUsage"
    /\ rawUsage.total_tokens = Missing
    /\ rawUsage.prompt_tokens = JsonNumber(-3)
    /\ rawUsage.completion_tokens = JsonNumber(14)
    /\ normalizedUsage = Usage(Field(0), Field(14), Field(12))

ResultOf(d) ==
    [pc |-> d.pc, response |-> d.response, raised |-> d.raised,
     delivered |-> d.delivered]

\* the dispatch run alone against the given answers of the adapter
RECURSIVE runAlone(_, _, _)
runAlone(d, inputs, max) ==
    IF inputs = <<>> THEN d
    ELSE runAlone(afterAnswer(<<d>>, 1, Head(inputs), max), Tail(inputs), max)

\* the i-th of the dispatches yields what it yields when run alone against
\* the answers it got
YieldsAsAlone(all, i) ==
    ResultOf(all[i]) =
        ResultOf(runAlone(beginDispatch(all[i].request, providers, adapters),
                          all[i].inputs, maxAttempts))

\* C30: concurrent dispatches share no mutable state: no step writes to the
\* configuration or to the adapter list, and under every interleaving of
\* chat, embed and stream dispatches each dispatch yields what it yields when
\* run alone against the same adapter responses: every step leaves each
\* dispatch it started or advanced where that dispatch is when run alone.
C30_NoSharedMutableState ==
    [][/\ UNCHANGED confVars
       /\ \A i \in DOMAIN dispatches' :
              (i \notin DOMAIN dispatches \/ dispatches'[i] # dispatches[i])
                  => YieldsAsAlone(dispatches', i)]_vars

\* three dispatches ran interleaved: a chat dispatch that returned on its
\* second attempt, a stream that delivered two deltas and the completion with
\* the accumulated content, and a chat dispatch that returned on its first
C30_Witness ==
    /\ Len(dispatches) = 3
    /\ dispatches[1].request.op = "chat" /\ dispatches[1].pc = "returned"
    /\ dispatches[1].response.attempts = 2
    /\ dispatches[2].request.op = "chatStream" /\ dispatches[2].pc = "returned"
    /\ Len(dispatches[2].delivered) = 3
    /\ dispatches[2].delivered[3].event.type = "completion"
    /\ dispatches[2].delivered[3].event.content = <<"Hel", "lo">>
    /\ dispatches[3].request.op = "chat" /\ dispatches[3].pc = "returned"
    /\ dispatches[3].response.attempts = 1

\* C31: between two consecutive attempts of one dispatch the orchestrator
\* backs off: a call to the provider that follows a failed attempt is made
\* only from a wait step of the retry loop.
C31_BackoffBetweenAttempts ==
    [][(calls >= 1 /\ calls' = calls + 1) => pc = "backoff"]_vars

\* the provider the stream dispatch was routed to declares the capability
RoutedDeclares(capability) ==
    /\ routing.ok
    /\ HasProvider(providers, routing.providerKey)
    /\ capability \in ProviderConfigOf(providers, routing.providerKey).capabilities

\* the adapter of the routed provider advertises chatStream and implements it
RoutedAdapterStreams ==
    LET index == findAdapter(adapters, routing.providerKey, 1) IN
    /\ index # 0
    /\ "chatStream" \in adapters[index].supports
    /\ adapters[index].hasChatStream

\* C32: dispatchChatStream checks the chatStream capability: a provider whose
\* configuration does not declare chatStream is never used for streaming, and
\* a routed provider that declares chatStream, with an adapter that
\* advertises and implements it, is accepted even if it does not declare chat.
C32_StreamChecksChatStream ==
    (request.op = "chatStream" /\ pc # "idle") =>
        /\ calls >= 1 => RoutedDeclares("chatStream")
        /\ (RoutedDeclares("chatStream") /\ RoutedAdapterStreams) => calls >= 1

\* C33: when adapter.chat throws an error that is not a ProviderError,
\* dispatchChat makes no further attempt and that very error propagates
\* unchanged, whether attempts remain or not and whatever earlier attempts of
\* the dispatch threw.
C33_OtherErrorsPropagate ==
    request.op = "chat" =>
        \A k \in 1..Len(thrown) :
            ~isProviderError(thrown[k])
                => /\ k = Len(thrown)
                   /\ calls = k
                   /\ pc = "threw"
                   /\ raised = thrown[k]

\* with two attempts allowed the first call threw a TEMPORARY ProviderError
\* and the second an error of another type, which is the one raised
C33_Witness ==
    /\ request.op = "chat"
    /\ maxAttempts = 2
    /\ Len(thrown) = 2
    /\ thrown[1].kind = "ProviderError" /\ thrown[1].classification = "TEMPORARY"
    /\ thrown[2].kind = "Error"
    /\ pc = "threw"
    /\ raised = thrown[2]

\* the frame or event is of the given type
IsCompletion(item) == item.type = "completion"

IsError(item) == item.type = "error"

\* the frame carries an event
IsEventFrame(item) == item.type \in {"delta", "completion"}

\* the orchestrator's stream was well formed: delta events, then one
\* completion event
EndsWithCompletion(events) ==
    /\ Len(events) >= 1
    /\ events[Len(events)].type = "completion"
    /\ \A k \in 1..(Len(events) - 1) : events[k].type = "delta"

\* C34: every chatStream response that ends without an error frame contains
\* exactly one frame of type completion, the last one before data: [DONE];
\* every completion event of the orchestrator's stream is forwarded.
C34_EndsWithCompletionFrame ==
    (treq.method = "chatStream" /\ tpc = "done" /\ ended
        /\ Len(SelectSeq(frames, IsError)) = 0
        /\ EndsWithCompletion(delivered))
    => /\ Len(frames) >= 2
       /\ frames[Len(frames)].type = "[DONE]"
       /\ frames[Len(frames) - 1].type = "completion"
       /\ Len(SelectSeq(frames, IsCompletion)) = 1

\* the content of the event is text: a string with something left after
\* stripping and with less than 20% control characters
IsText(event) ==
    /\ event.content.isString
    /\ event.content.printable > 0
    /\ 100 * event.content.controls < 20 * (event.content.printable + event.content.controls)

\* C35: every delta or completion content written to the SSE response has no
\* control character and at most 4,000 characters; an event whose content is
\* not text is never written and the stream continues with the next event:
\* the event frames written are, in order, the text events received so far.
C35_StreamContentSanitized ==
    LET written == SelectSeq(frames, IsEventFrame)
        text == SelectSeq(delivered, IsText)
    IN /\ Len(written) = Len(text)
       /\ \A k \in 1..Len(written) :
             /\ written[k].type = text[k].type
             /\ written[k].content.isString
             /\ written[k].content.controls = 0
             /\ written[k].content.printable <= 4000
             /\ written[k].content.printable <= text[k].content.printable
             /\ text[k].content.printable <= 4000
                   => written[k].content.printable = text[k].content.printable

\* a delta without string content was dropped, and the completion after it,
\* 4,100 characters and 100 control characters long, was written with 4,000
\* characters and no control character
C35_Witness ==
    /\ tpc = "done" /\ ended
    /\ delivered = <<[type |-> "delta", content |-> NoContent],
                     [type |-> "completion", content |-> Content(4100, 100)]>>
    /\ Len(frames) = 2
    /\ frames[1].type = "completion"
    /\ frames[1].content = Content(4000, 0)
    /\ frames[2].type = "[DONE]"

StatusesOf(list) == {list[i].status : i \in 1..Len(list)}

\* C36: the overall status of /health is failed if any component is failed,
\* otherwise degraded if any component is degraded, otherwise ok; a provider
\* whose health probe throws is reported as a failed component with details
\* 'Health probe failed', the remaining providers are still probed (there is
\* one component per configured provider, in order, after the two fixed
\* ones), and the request answers 200.
C36_HealthOverallStatus ==
    (treq.method = "getHealth" /\ health # NoHealth) =>
        LET list == health.components IN
        /\ tpc = "done" /\ tstatus = 200
        /\ Len(list) = 2 + Len(providers)
        /\ Len(probed) = Len(providers)
        /\ \A i \in 1..Len(providers) :
              /\ list[i + 2].name = ProviderComponent(providers[i].key)
              /\ probed[i].threw =>
                    /\ list[i + 2].status = "failed"
                    /\ list[i + 2].details = "Health probe failed"
        /\ "failed" \in StatusesOf(list) => health.status = "failed"
        /\ ("failed" \notin StatusesOf(list) /\ "degraded" \in StatusesOf(list))
              => health.status = "degraded"
        /\ StatusesOf(list) = {"ok"} => health.status = "ok"

\* the probe of the first of two providers threw, the second was probed
\* nevertheless and is degraded: /health answers 200 with status failed
C36_Witness ==
    /\ treq.method = "getHealth" /\ tpc = "done" /\ tstatus = 200
    /\ Len(providers) = 2
    /\ probed = <<Threw, Health("degraded", "warning")>>
    /\ health.status = "failed"
    /\ health.components[3] =
          Component(ProviderComponent("alpha"), "failed", "Health probe failed")
    /\ health.components[4] =
          Component(ProviderComponent("beta"), "degraded", "warning")

\* C37: listModels and checkProviderHealth never run routing selection;
\* listModels uses the named provider, or the first configured provider when
\* none is named, fails with a local error for an unknown provider without
\* calling any adapter, and returns the adapter's models in their order, each
\* enriched with the capabilities for which it is the configured default
\* model and with the provider's scores.
C37_ListModelsUsesNamedProvider ==
    /\ routing = NoRouting
    /\ (request.op = "models" /\ pc # "idle") =>
          LET first == IF providers = <<>> THEN None ELSE providers[1].key
              wanted == IF request.provider # None THEN request.provider ELSE first
          IN /\ (wanted = None \/ ~HasProvider(providers, wanted)) =>
                   /\ pc = "threw"
                   /\ raised.kind = "Error" /\ raised.origin # "adapter"
                   /\ calls = 0 /\ calledAdapter = None
             /\ calls > 0 => (calls = 1 /\ calledAdapter = wanted)
             /\ pc = "done" =>
                   /\ calls = 1
                   /\ response.provider = wanted
                   /\ Len(response.models) = Len(produced)
                   /\ \A k \in 1..Len(produced) :
                         /\ response.models[k].id = produced[k].id
                         /\ response.models[k].ready = produced[k].ready
                         /\ response.models[k].defaults =
                               {c \in Capabilities :
                                   ProviderConfigOf(providers, wanted).defaults[c]
                                       = produced[k].id}
                         /\ response.models[k].scores =
                               ProviderConfigOf(providers, wanted).scores

\* no provider was named, alpha is configured first: its adapter's two models
\* come back in order, the first as the default of chat and chatStream
C37_Witness ==
    /\ request.op = "models" /\ request.provider = None /\ pc = "done"
    /\ Len(providers) = 2 /\ providers[1].key = "alpha"
    /\ calledAdapter = "alpha"
    /\ response.provider = "alpha"
    /\ Len(produced) = 2
    /\ response.models[1].id = CapModelOf("alpha", "chat")
    /\ response.models[1].defaults = {"chat", "chatStream"}
    /\ response.models[2].id = CallerModel
    /\ response.models[2].defaults = {}

\* C38: the maximum attempt count is the configured retry.maxAttempts rounded
\* down when it is a finite number >= 1, and 2 in every other case (absent,
\* not a number, zero or negative, including LLM_CALLER_RETRY_ATTEMPTS=0), so
\* every dispatchChat that reaches the retry loop calls the adapter at least
\* once.
C38_MaxAttemptsAtLeastOne ==
    /\ maxAttempts >= 1
    /\ (retry.type = "number" /\ retry.halves >= 2) =>
          /\ 2 * maxAttempts <= retry.halves
          /\ retry.halves < 2 * (maxAttempts + 1)
    /\ ~(retry.type = "number" /\ retry.halves >= 2) => maxAttempts = 2
    /\ retryAttempts = Numeral(0) => maxAttempts = 2
    /\ (request.op = "chat" /\ routing.ok /\ adapterRequest # NoRequest) => calls >= 1

\* LLM_CALLER_RETRY_ATTEMPTS=0: the configuration holds maxAttempts 0, the
\* orchestrator makes two attempts and gives up after the second
C38_Witness ==
    /\ retryAttempts = Numeral(0)
    /\ retry = JsonNumber(0)
    /\ maxAttempts = 2
    /\ request.op = "chat" /\ pc = "threw"
    /\ calls = 2
    /\ ClassesOf(thrown) = <<"TEMPORARY", "TEMPORARY">>

\* every attempt of the dispatchChat failed with a retryable ProviderError
Exhausted ==
    /\ request.op = "chat" /\ pc = "threw"
    /\ Len(thrown) = maxAttempts
    /\ \A k \in 1..Len(thrown) :
          isProviderError(thrown[k]) /\ isRetryable(thrown[k].classification)

====
